---- MODULE Spec2Model ----
(***************************************************************************)
(* CEP -> temperature pipeline of gilmarvgs/otel.                          *)
(*                                                                         *)
(*   Service A (gateway)       src/unnamed/part_002        handler         *)
(*   Service B (orchestrator)  src/service-b/main.go       handler         *)
(*   single-service handler    src/cmd/main_test.go:114    handler         *)
(*   Location resolver         src/internal/location/viacep.go             *)
(*   Temperature resolver      src/internal/weather/weather.go             *)
(*                                                                         *)
(* One client request is followed from its entry point to the response     *)
(* written to the client.  The two upstreams, the wire between the         *)
(* services and the process environment are the nondeterministic           *)
(* environment.  The temperature upstream reports a decimal number of      *)
(* tenths of a degree; inside the program a temperature is a float64,      *)
(* modelled bit for bit (sign, 53-bit significand, binary exponent) with   *)
(* round-to-nearest-even arithmetic.                                       *)
(***************************************************************************)
EXTENDS Integers, Sequences, FiniteSets, TLC

(***************************************************************************)
(* Bounds and input pools                                                  *)
(***************************************************************************)
\* longest code the client sends (one more than a well-formed code)
MaxCodeLen == 9

Digit == {"0", "1", "2", "3", "4", "5", "6", "7", "8", "9"}

RECURSIVE SeqsUpTo(_, _)
SeqsUpTo(S, n) ==
    IF n = 0 THEN {<< >>}
    ELSE LET shorter == SeqsUpTo(S, n - 1)
         IN  shorter \cup {Append(s, c) : s \in {t \in shorter : Len(t) = n - 1}, c \in S}

\* every digit/non-digit shape up to MaxCodeLen, over "7" and "-", and the
\* two codes the repository's tests use, over "0"
Codes ==
    SeqsUpTo({"7", "-"}, MaxCodeLen)
      \cup {<<"0", "0", "0", "0", "0", "0", "0", "0">>, <<"0", "0", "0">>}


Entries == {"service-a", "service-b", "cmd"}

\* request bodies (service A/B) or query strings (cmd): undecodable, or an
\* object / query carrying the code
BadJSON == [kind |-> "bad", cep |-> << >>]
CepBody(c) == [kind |-> "json", cep |-> c]
Bodies == {BadJSON} \cup {CepBody(c) : c \in Codes}

\* WEATHER_API_KEY, and which of the configurable URLs do not parse
ApiKeys == {"", "s3cr3t"}
Configs ==
    [apiKey : ApiKeys, broken : {"none", "BaseURL", "ApiURL", "SERVICE_B_URL"}]

\* what the location upstream may answer
LocStatuses == {200, 400}
LocBodies ==
    {[kind |-> "garbage", has |-> FALSE, city |-> ""],
     [kind |-> "object", has |-> FALSE, city |-> ""],
     [kind |-> "object", has |-> TRUE, city |-> ""]}
      \cup {[kind |-> "object", has |-> TRUE, city |-> c] : c \in {"TestCity", "Sao Paulo"}}

\* what the temperature upstream may answer: the JSON number temp_c, counted
\* in tenths of a degree Celsius (250 is the text 25.0, 285 the text 28.5)
WxStatuses == {200, 201, 401}
WxBodies ==
    {[kind |-> "garbage", has |-> FALSE, temp_c |-> 0],
     [kind |-> "object", has |-> FALSE, temp_c |-> 0]}
      \cup {[kind |-> "object", has |-> TRUE, temp_c |-> t] : t \in {-40, 0, 250, 285}}


(***************************************************************************)
(* float64: natural numbers of any size as little-endian sequences of     *)
(* 15-bit limbs, and on them the IEEE-754 binary64 values                  *)
(* (-1)^s * m * 2^e with m of exactly MantBits bits (m = << >> is zero).   *)
(* The temperatures of the program stay far from the subnormal and the     *)
(* infinite range.                                                         *)
(***************************************************************************)
Base == 2^15

\* bits of the significand of a float64
MantBits == 53

\* limb i of a, 0 beyond its length
Limb(a, i) == IF i <= Len(a) THEN a[i] ELSE 0

\* a without its leading zero limbs
RECURSIVE BigNorm(_)
BigNorm(a) ==
    IF a = << >> THEN a
    ELSE IF a[Len(a)] = 0 THEN BigNorm(SubSeq(a, 1, Len(a) - 1))
    ELSE a

\* the limbs of a natural number that fits a machine word
RECURSIVE BigFromInt(_)
BigFromInt(n) == IF n = 0 THEN << >> ELSE <<n % Base>> \o BigFromInt(n \div Base)

\* a + b, limb by limb with carry c
RECURSIVE BigAddC(_, _, _, _)
BigAddC(a, b, i, c) ==
    IF i > Len(a) /\ i > Len(b) THEN (IF c = 0 THEN << >> ELSE <<c>>)
    ELSE LET x == Limb(a, i) + Limb(b, i) + c
         IN  <<x % Base>> \o BigAddC(a, b, i + 1, x \div Base)

BigAdd(a, b) == BigAddC(a, b, 1, 0)

\* a - b for a >= b, limb by limb with borrow br
RECURSIVE BigSubC(_, _, _, _)
BigSubC(a, b, i, br) ==
    IF i > Len(a) THEN << >>
    ELSE LET x == Limb(a, i) - Limb(b, i) - br
         IN  <<x % Base>> \o BigSubC(a, b, i + 1, IF x < 0 THEN 1 ELSE 0)

BigSub(a, b) == BigNorm(BigSubC(a, b, 1, 0))

\* a * m for a single limb m
RECURSIVE BigMulC(_, _, _, _)
BigMulC(a, m, i, c) ==
    IF i > Len(a) THEN (IF c = 0 THEN << >> ELSE <<c>>)
    ELSE LET x == a[i] * m + c
         IN  <<x % Base>> \o BigMulC(a, m, i + 1, x \div Base)

BigMulSmall(a, m) == IF m = 0 THEN << >> ELSE BigMulC(a, m, 1, 0)

\* a * Base^k
BigShiftLimbs(a, k) == IF a = << >> THEN a ELSE [j \in 1..k |-> 0] \o a

\* a * b, one limb of b at a time
RECURSIVE BigMulAcc(_, _, _)
BigMulAcc(a, b, i) ==
    IF i > Len(b) THEN << >>
    ELSE BigAdd(BigShiftLimbs(BigMulSmall(a, b[i]), i - 1), BigMulAcc(a, b, i + 1))

BigMul(a, b) == BigMulAcc(a, b, 1)

\* 1, 0 or -1 as a is greater than, equal to or less than b
RECURSIVE BigCmpFrom(_, _, _)
BigCmpFrom(a, b, i) ==
    IF i = 0 THEN 0
    ELSE IF a[i] > b[i] THEN 1
    ELSE IF a[i] < b[i] THEN -1
    ELSE BigCmpFrom(a, b, i - 1)

BigCmp(a, b) ==
    IF Len(a) > Len(b) THEN 1
    ELSE IF Len(a) < Len(b) THEN -1
    ELSE BigCmpFrom(a, b, Len(a))

\* quotient and remainder of a by a single limb d, from the top limb down
RECURSIVE BigDivC(_, _, _, _)
BigDivC(a, d, i, r) ==
    IF i = 0 THEN [q |-> << >>, r |-> r]
    ELSE LET cur == r * Base + a[i]
             rest == BigDivC(a, d, i - 1, cur % d)
         IN  [q |-> Append(rest.q, cur \div d), r |-> rest.r]

BigDivSmall(a, d) ==
    LET x == BigDivC(a, d, Len(a), 0) IN [q |-> BigNorm(x.q), r |-> x.r]

\* number of significant bits
BitLenSmall(n) == CHOOSE k \in 0..15 : (k = 0 /\ n = 0) \/ (k > 0 /\ 2^(k - 1) <= n /\ n < 2^k)

BigBitLen(a) == IF a = << >> THEN 0 ELSE 15 * (Len(a) - 1) + BitLenSmall(a[Len(a)])

\* a * 2^k and the floor of a / 2^k
BigShl(a, k) == BigShiftLimbs(BigMulSmall(a, 2^(k % 15)), k \div 15)

BigShr(a, k) ==
    LET drop == k \div 15
    IN  IF drop >= Len(a) THEN << >>
        ELSE BigDivSmall(SubSeq(a, drop + 1, Len(a)), 2^(k % 15)).q

BigOdd(a) == a # << >> /\ a[1] % 2 = 1

FloatZero == [s |-> 0, m |-> << >>, e |-> 0]

\* the float64 nearest to (-1)^s * N * 2^e, ties to the even significand;
\* sticky says that the true value lies strictly above N * 2^e in magnitude
RoundFloat(s, N, e, sticky) ==
    IF N = << >> THEN FloatZero
    ELSE LET L == BigBitLen(N)
         IN  IF L <= MantBits
             THEN [s |-> s, m |-> BigShl(N, MantBits - L), e |-> e - (MantBits - L)]
             ELSE LET sh == L - MantBits
                      q == BigShr(N, sh)
                      rem == BigSub(N, BigShl(q, sh))
                      c == BigCmp(rem, BigShl(<<1>>, sh - 1))
                      up == c = 1 \/ (c = 0 /\ (sticky \/ BigOdd(q)))
                      m1 == IF up THEN BigAdd(q, <<1>>) ELSE q
                  IN  IF BigBitLen(m1) > MantBits
                      THEN [s |-> s, m |-> BigShr(m1, 1), e |-> e + sh + 1]
                      ELSE [s |-> s, m |-> m1, e |-> e + sh]

Abs(n) == IF n < 0 THEN -n ELSE n
Sgn(n) == IF n < 0 THEN 1 ELSE 0

\* the float64 nearest to the decimal n/d, as strconv.ParseFloat and the
\* compiler read a decimal literal
FloatFromDecimal(n, d) ==
    LET x == BigDivSmall(BigShl(BigFromInt(Abs(n)), 75), d)
    IN  RoundFloat(Sgn(n), x.q, -75, x.r # 0)

\* the unrounded product and sum of two values
ExactMul(x, y) == [s |-> (x.s + y.s) % 2, m |-> BigMul(x.m, y.m), e |-> x.e + y.e]

ExactAdd(x, y) ==
    IF x.m = << >> THEN y
    ELSE IF y.m = << >> THEN x
    ELSE LET e == IF x.e < y.e THEN x.e ELSE y.e
             X == BigShl(x.m, x.e - e)
             Y == BigShl(y.m, y.e - e)
             c == BigCmp(X, Y)
         IN  IF x.s = y.s THEN [s |-> x.s, m |-> BigAdd(X, Y), e |-> e]
             ELSE IF c = 0 THEN FloatZero
             ELSE IF c = 1 THEN [s |-> x.s, m |-> BigSub(X, Y), e |-> e]
             ELSE [s |-> y.s, m |-> BigSub(Y, X), e |-> e]

\* float64 multiplication, addition and fused multiply-add
FloatRound(x) == RoundFloat(x.s, x.m, x.e, FALSE)
FloatMul(x, y) == FloatRound(ExactMul(x, y))
FloatAdd(x, y) == FloatRound(ExactAdd(x, y))
FloatFMA(x, y, z) == FloatRound(ExactAdd(ExactMul(x, y), z))

(***************************************************************************)
(* error values: the text is what err.Error() returns, the kind is the     *)
(* exit path that produced it                                              *)
(***************************************************************************)
NoErr == [kind |-> "nil", msg |-> ""]
Err(k, m) == [kind |-> k, msg |-> m]

ErrZipcodeNotFound == Err("notfound", "zipcode not found")
ErrKeyNotSet == Err("config", "WEATHER_API_KEY not set")
ErrWeatherLookup == Err("upstream", "weather lookup failed")
ErrParseURL(which) == Err("request", "parse " \o which \o ": invalid URL")
ErrTransport(which) == Err("transport", which \o ": connection failed")
ErrDecode == Err("decode", "invalid character looking for beginning of value")

(***************************************************************************)
(* the format check, one copy per handler: regexp ^\d{8}$                  *)
(***************************************************************************)
\* position after n digits read from position i of s, 0 when a non-digit or
\* the end of s comes first: the \d{n} part of the expression
RECURSIVE DigitsFrom(_, _, _)
DigitsFrom(s, i, n) ==
    IF n = 0 THEN i
    ELSE IF i <= Len(s) /\ s[i] \in Digit THEN DigitsFrom(s, i + 1, n - 1)
    ELSE 0

\* variants of the check that a slip in the expression would give:
\* ^\d{8} without the end anchor, and ^\d{1,8}$
MatchCEP_NoEndAnchor(s) == DigitsFrom(s, 1, 8) # 0

MatchCEP_UpToEight(s) ==
    /\ Len(s) \in 1..8
    /\ DigitsFrom(s, 1, Len(s)) = Len(s) + 1

\* ^ anchors the digits at position 1, $ (no multi-line flag) at the end of s
ServiceA_MatchCEP(s) == DigitsFrom(s, 1, 8) = Len(s) + 1

ServiceB_MatchCEP(s) == DigitsFrom(s, 1, 8) = Len(s) + 1

Cmd_MatchCEP(s) == DigitsFrom(s, 1, 8) = Len(s) + 1

(***************************************************************************)
(* net/http ResponseWriter                                                 *)
(***************************************************************************)
NewWriter == [status |-> 0, ctype |-> "", body |-> << >>, writeHeaders |-> 0]

TextChunk(t) == [kind |-> "text", text |-> t]

SetContentType(w, ct) == IF w.status = 0 THEN [w EXCEPT !.ctype = ct] ELSE w

\* only the first WriteHeader sends a status; a later one is superfluous
WriteHeader(w, code) ==
    IF w.status = 0
    THEN [w EXCEPT !.status = code, !.writeHeaders = @ + 1]
    ELSE [w EXCEPT !.writeHeaders = @ + 1]

\* a Write before any WriteHeader sends 200 first
Write(w, chunk) ==
    [w EXCEPT !.status = IF @ = 0 THEN 200 ELSE @, !.body = Append(@, chunk)]

\* http.Error(w, msg, code)
HttpError(w, msg, code) ==
    Write(WriteHeader(SetContentType(w, "text/plain; charset=utf-8"), code),
          TextChunk(msg \o "\n"))

(***************************************************************************)
(* OpenTelemetry spans                                                     *)
(***************************************************************************)
\* the server span otelhttp.NewHandler(handler, "weather-handler") opens
\* around every request of service A and of service B
ASrvSpan == "weather-handler@service-a"
BSrvSpan == "weather-handler@service-b"

\* the client span otelhttp.NewTransport opens around service A's POST; it
\* is the span an injected trace context names
AClientSpan == "HTTP POST@service-a"

SpanNames ==
    {ASrvSpan, BSrvSpan,
     "process-zipcode", "process-weather-request", "viacep-api-call", "weatherapi-call",
     "get-location", "get-weather"}

\* a span context: trace id and span; NoCtx is a context without a span
NoCtx == [trace |-> "", span |-> ""]

\* the propagators registered with otel.SetTextMapPropagator: InitTracer
\* registers none, so the global propagator is the empty composite
GlobalPropagators == {}

\* propagator.Inject into the headers of an outgoing request
Inject(ctx) == IF "tracecontext" \in GlobalPropagators THEN ctx ELSE NoCtx

\* propagator.Extract from the headers of an incoming request
Extract(carrier) == IF "tracecontext" \in GlobalPropagators THEN carrier ELSE NoCtx

\* the id of a trace begun by a root span
NewTraceID(name) == "trace of " \o name

NoURL == [tmpl |-> "", key |-> "", cep |-> << >>, q |-> ""]

NoAttrs ==
    [keys |-> {}, cep |-> << >>, url |-> NoURL, city |-> "", status_code |-> 0,
     temperature |-> FloatZero]

NoSpan ==
    [state |-> "unstarted", parent |-> "", trace |-> "", status |-> "Unset",
     desc |-> "", errors |-> << >>, attrs |-> NoAttrs, starts |-> 0, ends |-> 0]

\* the context that carries span name
SpanContextOf(sp, name) ==
    IF name = "" THEN NoCtx ELSE [trace |-> sp[name].trace, span |-> name]

\* tracer.Start(ctx, name): a child of the span ctx carries, in its trace; a
\* root span of a new trace when ctx carries none
StartSpanCtx(sp, name, ctx) ==
    [sp EXCEPT ![name] =
        [NoSpan EXCEPT !.state = "open", !.parent = ctx.span,
                       !.trace = IF ctx.trace = "" THEN NewTraceID(name) ELSE ctx.trace,
                       !.starts = sp[name].starts + 1]]

StartSpan(sp, name, parent) == StartSpanCtx(sp, name, SpanContextOf(sp, parent))

\* the SDK ignores every call on a span that has ended
Recording(sp, name) == sp[name].state = "open"

RecordError(sp, name, err) ==
    IF Recording(sp, name)
    THEN [sp EXCEPT ![name].errors = Append(@, err.msg)]
    ELSE sp

\* codes.Unset < codes.Error < codes.Ok: a code lower than the span's is
\* ignored, so Ok is final and Error is never reset to Unset; the
\* description is kept with codes.Error only
SetStatus(sp, name, code, desc) ==
    IF /\ Recording(sp, name)
       /\ LET rank == [c \in {"Unset", "Error", "Ok"} |->
                         CASE c = "Unset" -> 0 [] c = "Error" -> 1 [] OTHER -> 2]
          IN  rank[sp[name].status] <= rank[code]
    THEN [sp EXCEPT ![name].status = code,
                    ![name].desc = IF code = "Error" THEN desc ELSE ""]
    ELSE sp

EndSpan(sp, name) ==
    [sp EXCEPT ![name].state = IF @ = "unstarted" THEN @ ELSE "ended",
               ![name].ends = @ + 1]

\* span.RecordError(err); span.SetStatus(codes.Error, err.Error())
FailSpan(sp, name, err) == SetStatus(RecordError(sp, name, err), name, "Error", err.msg)

(***************************************************************************)
(* conversions                                                             *)
(***************************************************************************)
\* the float64 constants 1.8, 32 and 273 of the two conversions
Float1_8 == FloatFromDecimal(18, 10)
Float32 == FloatFromDecimal(32, 1)
Float273 == FloatFromDecimal(273, 1)

\* tempC*1.8 + 32 in float64: the product is rounded and then the sum, or,
\* where the compiler fuses the two (arm64, ppc64le, s390x, riscv64), the
\* exact product enters the sum and the result is rounded once
TempF(c, fused) ==
    IF fused THEN FloatFMA(c, Float1_8, Float32)
    ELSE FloatAdd(FloatMul(c, Float1_8), Float32)

\* tempC + 273 in float64
TempK(c) == FloatAdd(c, Float273)

\* url.QueryEscape on the cities of the pool: a space becomes "+", letters
\* and digits are kept
QueryEscape(city) ==
    CASE city = "Sao Paulo" -> "Sao+Paulo"
      [] OTHER -> city

\* fmt.Sprintf(BaseURL, cep)
LocationURL(cep) == [tmpl |-> "BaseURL", key |-> "", cep |-> cep, q |-> ""]

\* fmt.Sprintf(ApiURL, apiKey, escapedCity)
WeatherURL(key, city) ==
    [tmpl |-> "ApiURL", key |-> key, cep |-> << >>, q |-> QueryEscape(city)]

\* json.NewDecoder(resp.Body).Decode(&loc): the city, "" when the object
\* has no "localidade"
DecodeLocation(body) == IF body.has THEN body.city ELSE ""

\* json.NewDecoder(resp.Body).Decode(&weatherResp): current.temp_c parsed
\* to the nearest float64, 0 when the object has none
DecodeWeather(body) == IF body.has THEN FloatFromDecimal(body.temp_c, 10) ELSE FloatZero

\* variant whose request struct tags the field with a key service B does
\* not read (`json:"zipcode"`): service B decodes an empty code
MarshalRequest_Untagged(cep) == [kind |-> "json", cep |-> << >>]

\* json.Marshal(req) of service A; json.NewDecoder(r.Body).Decode(&input)
MarshalRequest(cep) == [kind |-> "json", cep |-> cep]

Decodable(payload) == payload.kind = "json"

\* variant with the two derived fields exchanged
ServiceB_Encode_Swapped(city, c, f, k) ==
    [kind |-> "json", city |-> city, temp_C |-> c, temp_F |-> k, temp_K |-> f]

\* json.NewEncoder(w).Encode(resp) of service B and of the single service:
\* a float64 is written as the shortest decimal that reads back as the same
\* float64, so two bodies are the same text exactly when the floats are equal
ServiceB_Encode(city, c, f, k) ==
    [kind |-> "json", city |-> city, temp_C |-> c, temp_F |-> f, temp_K |-> k]

Cmd_Encode(c, f, k) == [kind |-> "json", temp_C |-> c, temp_F |-> f, temp_K |-> k]

(***************************************************************************)
(* outward status of a failed lookup                                       *)
(***************************************************************************)
\* service B: err.Error() == "zipcode not found" ? 404 : 500
ServiceB_LocationErrorStatus(err) == IF err.msg = "zipcode not found" THEN 404 ELSE 500

\* variant that answers with the text of the error it got
ServiceB_LocationErrorText_Verbose(err) ==
    IF err.msg = "zipcode not found" THEN "can not find zipcode" ELSE err.msg

ServiceB_LocationErrorText(err) ==
    IF err.msg = "zipcode not found" THEN "can not find zipcode" ELSE "Internal server error"

\* single service: every location error is answered 404
Cmd_LocationErrorStatus(err) == 404

\* variant that reports an upstream rejection as 502 Bad Gateway
WeatherErrorStatus_BadGateway(err) == IF err.kind = "upstream" THEN 502 ELSE 500

ServiceB_WeatherErrorStatus(err) == 500

Cmd_WeatherErrorStatus(err) == 500

(***************************************************************************)
(* state                                                                   *)
(***************************************************************************)
VARIABLES
    req,    \* the client's request: [entry, method, payload, canceled]
    cfg,    \* process environment: [apiKey, broken]
    svcA,   \* service A handler: [pc, cep, out, resp]
    svcB,   \* service B handler: [pc, method, payload, carrier, cep, city,
            \*                     tempC, tempF, tempK, copy]
    cmd,    \* single-service handler: [pc, cep, city, tempC]
    loc,    \* GetLocationByCEP: [pc, caller, parent, cep, resp, city, err]
    wx,     \* GetTemperature: [pc, caller, parent, city, resp, tempC, err]
    w,      \* one ResponseWriter per handler
    spans,  \* the spans of the request, by name
    net,    \* the network events of the request, in order
    proc    \* the serving process: [pc, tp, boot, fma, peer]

vars == <<req, cfg, svcA, svcB, cmd, loc, wx, w, spans, net, proc>>

NoPayload == [kind |-> "none", cep |-> << >>]
NoWireResp == [status |-> 0, body |-> << >>]

IdleA ==
    [pc |-> "idle", cep |-> << >>, out |-> NoPayload, resp |-> NoWireResp,
     copy |-> "main", canceled |-> FALSE]
IdleB ==
    [pc |-> "idle", method |-> "", payload |-> NoPayload, carrier |-> NoCtx,
     cep |-> << >>, city |-> "", tempC |-> FloatZero, tempF |-> FloatZero,
     tempK |-> FloatZero, copy |-> "main", canceled |-> FALSE]
IdleCmd == [pc |-> "idle", cep |-> << >>, city |-> "", tempC |-> FloatZero]
NoLocResp == [status |-> 0, body |-> [kind |-> "none", has |-> FALSE, city |-> ""]]
NoWxResp == [status |-> 0, body |-> [kind |-> "none", has |-> FALSE, temp_c |-> 0]]
IdleLoc ==
    [pc |-> "idle", caller |-> "", parent |-> "", cep |-> << >>, resp |-> NoLocResp,
     city |-> "", err |-> NoErr]
IdleWx ==
    [pc |-> "idle", caller |-> "", parent |-> "", city |-> "", resp |-> NoWxResp,
     tempC |-> FloatZero, err |-> NoErr]

\* main has initialised the tracer provider and is in ListenAndServe; boot
\* is the environment main started in, fma whether the build fuses
\* tempC*1.8 + 32 into one multiply-add, peer the state of a second request
\* of the process while the first one runs
NoPeer == << >>
Serving(env, fused) ==
    [pc |-> "serving", tp |-> "running", boot |-> env, fma |-> fused, peer |-> NoPeer]

\* the repository holds service B's handler twice: the one of
\* service-b/main.go, and an earlier copy that wraps each resolver call in a
\* span of its own and calls the resolvers without a context
BCopies == {"main", "earlier"}

\* the server hands the request to the handler of the entry point
\* the repository holds service A's handler twice as well: the one of
\* main.go ("main") and an earlier copy that relays service B's body with
\* fmt.Fprintf ("earlier")
ACopies == {"main", "earlier"}

Init ==
    /\ req \in [entry : Entries, method : {"POST", "GET"}, payload : Bodies, canceled : {FALSE}]
    /\ cfg \in Configs
    /\ svcA \in IF req.entry = "service-a"
                 THEN {[IdleA EXCEPT !.pc = "serve", !.copy = c] : c \in ACopies}
                 ELSE {IdleA}
    /\ svcB \in IF req.entry = "service-b"
                 THEN {[IdleB EXCEPT !.pc = "serve", !.method = req.method,
                                     !.payload = req.payload, !.copy = c] :
                       c \in BCopies}
                 ELSE {IdleB}
    /\ cmd = [IdleCmd EXCEPT !.pc = IF req.entry = "cmd" THEN "validate" ELSE "idle"]
    /\ loc = IdleLoc
    /\ wx = IdleWx
    /\ w = [h \in Entries |-> NewWriter]
    /\ spans = [n \in SpanNames |-> NoSpan]
    /\ net = << >>
    /\ proc \in {[Serving(cfg, fused) EXCEPT
                      !.tp = IF req.entry = "cmd" THEN "none" ELSE @] :
                  fused \in BOOLEAN}

NetEvent(to, ev) == [to |-> to, ev |-> ev]

\* the process that runs handler h is up: proc is the process the client's
\* request came to; when that is service A, service B is another process
Up(h) == proc.pc = "serving" \/ (req.entry = "service-a" /\ h # "service-a")

\* the process that runs handler h has installed a TracerProvider
Tracing(h) == ~(h = req.entry /\ proc.tp = "none")

\* the spans after the calls sp of handler h's resolver on its tracer and
\* span: in a process that installed no TracerProvider the global provider
\* hands out a non-recording span, and no call on it records anything
Recorded(h, sp) == IF Tracing(h) THEN sp ELSE spans

\* the context a resolver was called with is done: the caller passed the
\* context of its request on, the connection of its client was closed and
\* the server has read the close
CtxDone(call) == call.parent # "" /\ call.caller = "service-b" /\ svcB.canceled

\* calls of the two resolvers: the callee starts with the caller's context
CallLocation(caller, parent, cep) ==
    [IdleLoc EXCEPT !.pc = "startSpan", !.caller = caller, !.parent = parent, !.cep = cep]

CallWeather(caller, parent, city) ==
    [IdleWx EXCEPT !.pc = "startSpan", !.caller = caller, !.parent = parent, !.city = city]

(***************************************************************************)
(* location.GetLocationByCEP                                               *)
(***************************************************************************)
LocSpan == "viacep-api-call"

\* tracer.Start(ctx, "viacep-api-call"); span.SetAttributes(cep, url)
Loc_StartSpan ==
    /\ Up(loc.caller)
    /\ loc.pc = "startSpan"
    /\ spans' = Recorded(loc.caller, [StartSpan(spans, LocSpan, loc.parent) EXCEPT
                    ![LocSpan].attrs.keys = {"viacep.cep", "http.url"},
                    ![LocSpan].attrs.cep = loc.cep,
                    ![LocSpan].attrs.url = LocationURL(loc.cep)])
    /\ loc' = [loc EXCEPT !.pc = "newRequest"]
    /\ UNCHANGED <<proc, req, cfg, svcA, svcB, cmd, wx, w, net>>

\* http.NewRequestWithContext(ctx, GET, url, nil)
Loc_NewRequest ==
    /\ Up(loc.caller)
    /\ loc.pc = "newRequest"
    /\ IF cfg.broken = "BaseURL"
       THEN /\ spans' = Recorded(loc.caller, FailSpan(spans, LocSpan, ErrParseURL("BaseURL")))
            /\ loc' = [loc EXCEPT !.pc = "return", !.err = ErrParseURL("BaseURL")]
       ELSE /\ loc' = [loc EXCEPT !.pc = "do"]
            /\ UNCHANGED spans
    /\ UNCHANGED <<proc, req, cfg, svcA, svcB, cmd, wx, w, net>>

\* client.Do(req): the request reaches the upstream, or the connection
\* cannot be made
Loc_Do ==
    /\ Up(loc.caller)
    /\ loc.pc = "do"
    /\ ~CtxDone(loc)
    /\ \E delivered \in BOOLEAN :
         IF delivered
         THEN /\ net' = Append(net, NetEvent("viacep", "request"))
              /\ loc' = [loc EXCEPT !.pc = "inflight"]
              /\ UNCHANGED spans
         ELSE /\ spans' = Recorded(loc.caller, FailSpan(spans, LocSpan, ErrTransport("viacep")))
              /\ loc' = [loc EXCEPT !.pc = "return", !.err = ErrTransport("viacep")]
              /\ UNCHANGED net
    /\ UNCHANGED <<proc, req, cfg, svcA, svcB, cmd, wx, w>>

\* client.Do(req) returns an error after the request was sent
Loc_TransportError ==
    /\ Up(loc.caller)
    /\ loc.pc = "inflight"
    /\ net' = Append(net, NetEvent("viacep", "failure"))
    /\ spans' = Recorded(loc.caller, FailSpan(spans, LocSpan, ErrTransport("viacep")))
    /\ loc' = [loc EXCEPT !.pc = "return", !.err = ErrTransport("viacep")]
    /\ UNCHANGED <<proc, req, cfg, svcA, svcB, cmd, wx, w>>

\* variant without the loc.City == "" check
Loc_Outcome_NoEmptyCheck(r) ==
    IF r.body.kind = "garbage" THEN [city |-> "", err |-> ErrDecode]
    ELSE [city |-> DecodeLocation(r.body), err |-> NoErr]

\* variant that refuses every status but 200 before it decodes
Loc_Outcome_StatusFirst(r) ==
    IF r.status # 200 THEN [city |-> "", err |-> ErrZipcodeNotFound]
    ELSE IF r.body.kind = "garbage" THEN [city |-> "", err |-> ErrDecode]
    ELSE IF DecodeLocation(r.body) = "" THEN [city |-> "", err |-> ErrZipcodeNotFound]
    ELSE [city |-> DecodeLocation(r.body), err |-> NoErr]

\* what GetLocationByCEP makes of a response: the status is only recorded,
\* the body decides
Loc_Outcome(r) ==
    IF r.body.kind = "garbage" THEN [city |-> "", err |-> ErrDecode]
    ELSE IF DecodeLocation(r.body) = "" THEN [city |-> "", err |-> ErrZipcodeNotFound]
    ELSE [city |-> DecodeLocation(r.body), err |-> NoErr]

\* client.Do(req) returns once the response's header is there: the status
\* becomes an attribute of the span, the body is still to be read; a
\* response that has arrived can be taken although the context is done
Loc_Response ==
    /\ Up(loc.caller)
    /\ loc.pc = "inflight"
    /\ \E st \in LocStatuses :
         /\ net' = Append(net, NetEvent("viacep", "response"))
         /\ spans' = Recorded(loc.caller, [spans EXCEPT ![LocSpan].attrs.keys = @ \cup {"http.status_code"},
                                   ![LocSpan].attrs.status_code = st])
         /\ loc' = [loc EXCEPT !.pc = "decode", !.resp.status = st]
    /\ UNCHANGED <<proc, req, cfg, svcA, svcB, cmd, wx, w>>

\* variant that keeps the last city found in a package variable and
\* answers from it
Loc_Decode_Cached ==
    /\ Up(loc.caller)
    /\ loc.pc = "decode"
    /\ \E b \in LocBodies :
         LET r == [status |-> loc.resp.status, body |-> b]
             out == Loc_Outcome(r)
             city == IF "lastCity" \in DOMAIN cfg THEN cfg.lastCity ELSE out.city
         IN  /\ spans' = Recorded(loc.caller, IF out.err # NoErr THEN FailSpan(spans, LocSpan, out.err)
                          ELSE SetStatus(spans, LocSpan, "Ok", "CEP encontrado com sucesso"))
             /\ loc' = [loc EXCEPT !.pc = "return", !.resp = r, !.err = out.err,
                                    !.city = IF out.err # NoErr THEN "" ELSE city]
             /\ cfg' = IF out.err # NoErr THEN cfg
                       ELSE [apiKey |-> cfg.apiKey, broken |-> cfg.broken,
                             lastCity |-> city]
    /\ UNCHANGED <<proc, req, svcA, svcB, cmd, wx, w, net>>

\* json.NewDecoder(resp.Body).Decode(&loc) has read the body: decode error,
\* city check, or the city as attribute and the status Ok
Loc_Decode ==
    /\ Up(loc.caller)
    /\ loc.pc = "decode"
    /\ \E b \in LocBodies :
         LET r == [status |-> loc.resp.status, body |-> b]
             out == Loc_Outcome(r)
         IN  /\ spans' = Recorded(loc.caller,
                  IF out.err # NoErr THEN FailSpan(spans, LocSpan, out.err)
                  ELSE SetStatus(
                         [spans EXCEPT ![LocSpan].attrs.keys = @ \cup {"viacep.city"},
                                       ![LocSpan].attrs.city = out.city],
                         LocSpan, "Ok", "CEP encontrado com sucesso"))
             /\ loc' = [loc EXCEPT !.pc = "return", !.resp = r, !.city = out.city,
                                    !.err = out.err]
    /\ UNCHANGED <<proc, req, cfg, svcA, svcB, cmd, wx, w, net>>

\* variant without the deferred span.End()
Loc_Return_NoEnd ==
    /\ Up(loc.caller)
    /\ loc.pc = "return"
    /\ loc' = [loc EXCEPT !.pc = "returned"]
    /\ UNCHANGED <<proc, req, cfg, svcA, svcB, cmd, wx, w, spans, net>>

\* the deferred span.End() runs and the result reaches the caller
Loc_Return ==
    /\ Up(loc.caller)
    /\ loc.pc = "return"
    /\ spans' = Recorded(loc.caller, EndSpan(spans, LocSpan))
    /\ loc' = [loc EXCEPT !.pc = "returned"]
    /\ UNCHANGED <<proc, req, cfg, svcA, svcB, cmd, wx, w, net>>

(***************************************************************************)
(* weather.GetTemperature                                                  *)
(***************************************************************************)
WxSpan == "weatherapi-call"

\* tracer.Start(ctx, "weatherapi-call")
Wx_StartSpan ==
    /\ Up(wx.caller)
    /\ wx.pc = "startSpan"
    /\ spans' = Recorded(wx.caller, StartSpan(spans, WxSpan, wx.parent))
    /\ wx' = [wx EXCEPT !.pc = "checkKey"]
    /\ UNCHANGED <<proc, req, cfg, svcA, svcB, cmd, loc, w, net>>

\* variant without the apiKey == "" check
Wx_CheckKey_Unchecked ==
    /\ Up(wx.caller)
    /\ wx.pc = "checkKey"
    /\ spans' = Recorded(wx.caller, [spans EXCEPT
                    ![WxSpan].attrs.keys = {"weatherapi.city", "http.url"},
                    ![WxSpan].attrs.city = wx.city,
                    ![WxSpan].attrs.url = WeatherURL(cfg.apiKey, wx.city)])
    /\ wx' = [wx EXCEPT !.pc = "newRequest"]
    /\ UNCHANGED <<proc, req, cfg, svcA, svcB, cmd, loc, w, net>>

\* variant that returns the configuration error without touching the span
Wx_CheckKey_Silent ==
    /\ Up(wx.caller)
    /\ wx.pc = "checkKey"
    /\ IF cfg.apiKey = ""
       THEN /\ wx' = [wx EXCEPT !.pc = "return", !.err = ErrKeyNotSet]
            /\ UNCHANGED spans
       ELSE /\ spans' = Recorded(wx.caller, [spans EXCEPT
                           ![WxSpan].attrs.keys = {"weatherapi.city", "http.url"},
                           ![WxSpan].attrs.city = wx.city,
                           ![WxSpan].attrs.url = WeatherURL(cfg.apiKey, wx.city)])
            /\ wx' = [wx EXCEPT !.pc = "newRequest"]
    /\ UNCHANGED <<proc, req, cfg, svcA, svcB, cmd, loc, w, net>>

\* os.Getenv("WEATHER_API_KEY"); when set, the URL is built and recorded
Wx_CheckKey ==
    /\ Up(wx.caller)
    /\ wx.pc = "checkKey"
    /\ IF cfg.apiKey = ""
       THEN /\ spans' = Recorded(wx.caller, FailSpan(spans, WxSpan, ErrKeyNotSet))
            /\ wx' = [wx EXCEPT !.pc = "return", !.err = ErrKeyNotSet]
       ELSE /\ spans' = Recorded(wx.caller, [spans EXCEPT
                           ![WxSpan].attrs.keys = {"weatherapi.city", "http.url"},
                           ![WxSpan].attrs.city = wx.city,
                           ![WxSpan].attrs.url = WeatherURL(cfg.apiKey, wx.city)])
            /\ wx' = [wx EXCEPT !.pc = "newRequest"]
    /\ UNCHANGED <<proc, req, cfg, svcA, svcB, cmd, loc, w, net>>

\* http.NewRequestWithContext(ctx, GET, fullURL, nil)
Wx_NewRequest ==
    /\ Up(wx.caller)
    /\ wx.pc = "newRequest"
    /\ IF cfg.broken = "ApiURL"
       THEN /\ spans' = Recorded(wx.caller, FailSpan(spans, WxSpan, ErrParseURL("ApiURL")))
            /\ wx' = [wx EXCEPT !.pc = "return", !.err = ErrParseURL("ApiURL")]
       ELSE /\ wx' = [wx EXCEPT !.pc = "do"]
            /\ UNCHANGED spans
    /\ UNCHANGED <<proc, req, cfg, svcA, svcB, cmd, loc, w, net>>

\* client.Do(req)
Wx_Do ==
    /\ Up(wx.caller)
    /\ wx.pc = "do"
    /\ ~CtxDone(wx)
    /\ \E delivered \in BOOLEAN :
         IF delivered
         THEN /\ net' = Append(net, NetEvent("weatherapi", "request"))
              /\ wx' = [wx EXCEPT !.pc = "inflight"]
              /\ UNCHANGED spans
         ELSE /\ spans' = Recorded(wx.caller, FailSpan(spans, WxSpan, ErrTransport("weatherapi")))
              /\ wx' = [wx EXCEPT !.pc = "return", !.err = ErrTransport("weatherapi")]
              /\ UNCHANGED net
    /\ UNCHANGED <<proc, req, cfg, svcA, svcB, cmd, loc, w>>

Wx_TransportError ==
    /\ Up(wx.caller)
    /\ wx.pc = "inflight"
    /\ net' = Append(net, NetEvent("weatherapi", "failure"))
    /\ spans' = Recorded(wx.caller, FailSpan(spans, WxSpan, ErrTransport("weatherapi")))
    /\ wx' = [wx EXCEPT !.pc = "return", !.err = ErrTransport("weatherapi")]
    /\ UNCHANGED <<proc, req, cfg, svcA, svcB, cmd, loc, w>>

\* variant that takes an object without current.temp_c for a failed decode
Wx_Outcome_RequireField(r) ==
    IF r.status # 200 THEN [tempC |-> FloatZero, err |-> ErrWeatherLookup]
    ELSE IF r.body.kind = "garbage" \/ ~r.body.has THEN [tempC |-> FloatZero, err |-> ErrDecode]
    ELSE [tempC |-> DecodeWeather(r.body), err |-> NoErr]

\* variant that decodes the body before it looks at the status
Wx_Outcome_DecodeFirst(r) ==
    IF r.body.kind = "garbage" THEN [tempC |-> FloatZero, err |-> ErrDecode]
    ELSE IF r.status # 200 THEN [tempC |-> DecodeWeather(r.body), err |-> ErrWeatherLookup]
    ELSE [tempC |-> DecodeWeather(r.body), err |-> NoErr]

\* what GetTemperature makes of a response: any status but 200 is a failed
\* lookup, then the body is decoded
Wx_Outcome(r) ==
    IF r.status # 200 THEN [tempC |-> FloatZero, err |-> ErrWeatherLookup]
    ELSE IF r.body.kind = "garbage" THEN [tempC |-> FloatZero, err |-> ErrDecode]
    ELSE [tempC |-> DecodeWeather(r.body), err |-> NoErr]

\* client.Do(req) returns once the response's header is there: the status
\* becomes an attribute of the span, the body is still to be read
Wx_Response ==
    /\ Up(wx.caller)
    /\ wx.pc = "inflight"
    /\ \E st \in WxStatuses :
         /\ net' = Append(net, NetEvent("weatherapi", "response"))
         /\ spans' = Recorded(wx.caller, [spans EXCEPT ![WxSpan].attrs.keys = @ \cup {"http.status_code"},
                                   ![WxSpan].attrs.status_code = st])
         /\ wx' = [wx EXCEPT !.pc = "readBody", !.resp.status = st]
    /\ UNCHANGED <<proc, req, cfg, svcA, svcB, cmd, loc, w>>

\* the body has been read: by io.ReadAll for the log when the status is not
\* 200, by json Decode otherwise; the outcome is recorded on the span
Wx_Decode ==
    /\ Up(wx.caller)
    /\ wx.pc = "readBody"
    /\ \E b \in WxBodies :
         LET r == [status |-> wx.resp.status, body |-> b]
             out == Wx_Outcome(r)
         IN  /\ spans' = Recorded(wx.caller,
                  IF out.err # NoErr THEN FailSpan(spans, WxSpan, out.err)
                  ELSE SetStatus(
                         [spans EXCEPT
                            ![WxSpan].attrs.keys = @ \cup {"weather.temperature_celsius"},
                            ![WxSpan].attrs.temperature = out.tempC],
                         WxSpan, "Ok", "Temperatura obtida com sucesso"))
             /\ wx' = [wx EXCEPT !.pc = "return", !.resp = r, !.tempC = out.tempC,
                                  !.err = out.err]
    /\ UNCHANGED <<proc, req, cfg, svcA, svcB, cmd, loc, w, net>>

\* variant without the deferred span.End()
Wx_Return_NoEnd ==
    /\ Up(wx.caller)
    /\ wx.pc = "return"
    /\ wx' = [wx EXCEPT !.pc = "returned"]
    /\ UNCHANGED <<proc, req, cfg, svcA, svcB, cmd, loc, w, spans, net>>

Wx_Return ==
    /\ Up(wx.caller)
    /\ wx.pc = "return"
    /\ spans' = Recorded(wx.caller, EndSpan(spans, WxSpan))
    /\ wx' = [wx EXCEPT !.pc = "returned"]
    /\ UNCHANGED <<proc, req, cfg, svcA, svcB, cmd, loc, w, net>>

(***************************************************************************)
(* service B: handler                                                      *)
(***************************************************************************)
BSpan == "process-weather-request"

\* otelhttp.NewHandler: the server span is started in the context extracted
\* from the request's headers, and the handler is called with it
ServiceB_Serve ==
    /\ Up("service-b")
    /\ svcB.pc = "serve"
    /\ spans' = StartSpanCtx(spans, BSrvSpan, Extract(svcB.carrier))
    /\ svcB' = [svcB EXCEPT !.pc = "startSpan"]
    /\ UNCHANGED <<proc, req, cfg, svcA, cmd, loc, wx, w, net>>

\* otelhttp.NewHandler: the handler has returned; a 5xx status marks the
\* server span as failed, and the span is ended
ServiceB_Served ==
    /\ Up("service-b")
    /\ svcB.pc = "exit"
    /\ spans' = EndSpan(IF w["service-b"].status >= 500
                        THEN SetStatus(spans, BSrvSpan, "Error", "")
                        ELSE spans, BSrvSpan)
    /\ svcB' = [svcB EXCEPT !.pc = "done"]
    /\ UNCHANGED <<proc, req, cfg, svcA, cmd, loc, wx, w, net>>

\* tracer.Start(r.Context(), "process-weather-request"); defer span.End()
ServiceB_StartSpan ==
    /\ Up("service-b")
    /\ svcB.pc = "startSpan"
    /\ spans' = StartSpan(spans, BSpan, BSrvSpan)
    /\ svcB' = [svcB EXCEPT !.pc = "checkMethod"]
    /\ UNCHANGED <<proc, req, cfg, svcA, cmd, loc, wx, w, net>>

\* variant without the r.Method check
ServiceB_CheckMethod_AnyMethod ==
    /\ Up("service-b")
    /\ svcB.pc = "checkMethod"
    /\ svcB' = [svcB EXCEPT !.pc = "decode"]
    /\ UNCHANGED <<proc, req, cfg, svcA, cmd, loc, wx, w, spans, net>>

ServiceB_CheckMethod ==
    /\ Up("service-b")
    /\ svcB.pc = "checkMethod"
    /\ IF svcB.method # "POST"
       THEN /\ spans' = RecordError(spans, BSpan, Err("method", "metodo nao permitido"))
            /\ w' = [w EXCEPT !["service-b"] = HttpError(@, "Method not allowed", 405)]
            /\ svcB' = [svcB EXCEPT !.pc = "return"]
       ELSE /\ svcB' = [svcB EXCEPT !.pc = "decode"]
            /\ UNCHANGED <<spans, w>>
    /\ UNCHANGED <<proc, req, cfg, svcA, cmd, loc, wx, net>>

ServiceB_Decode ==
    /\ Up("service-b")
    /\ svcB.pc = "decode"
    /\ IF ~Decodable(svcB.payload)
       THEN /\ spans' = RecordError(spans, BSpan, ErrDecode)
            /\ w' = [w EXCEPT !["service-b"] = HttpError(@, "invalid zipcode", 422)]
            /\ svcB' = [svcB EXCEPT !.pc = "return"]
       ELSE /\ svcB' = [svcB EXCEPT !.pc = "validate", !.cep = svcB.payload.cep]
            /\ UNCHANGED <<spans, w>>
    /\ UNCHANGED <<proc, req, cfg, svcA, cmd, loc, wx, net>>

\* the format check; a well-formed code goes to location.GetLocationByCEP
ServiceB_Validate ==
    /\ Up("service-b")
    /\ svcB.pc = "validate"
    /\ svcB.copy = "main"
    /\ IF ~ServiceB_MatchCEP(svcB.cep)
       THEN /\ spans' = RecordError(spans, BSpan, Err("format", "formato de CEP invalido"))
            /\ w' = [w EXCEPT !["service-b"] = HttpError(@, "invalid zipcode", 422)]
            /\ svcB' = [svcB EXCEPT !.pc = "return"]
            /\ UNCHANGED loc
       ELSE /\ svcB' = [svcB EXCEPT !.pc = "waitLocation"]
            /\ loc' = CallLocation("service-b", BSpan, svcB.cep)
            /\ UNCHANGED <<spans, w>>
    /\ UNCHANGED <<proc, req, cfg, svcA, cmd, wx, net>>

\* variant that starts the temperature lookup as soon as the location
\* request is on the wire, without waiting for GetLocationByCEP to return
ServiceB_AfterLocation_Eager ==
    /\ Up("service-b")
    /\ svcB.pc = "waitLocation"
    /\ loc.pc \in {"inflight", "returned"}
    /\ svcB' = [svcB EXCEPT !.pc = "waitWeather", !.city = loc.city]
    /\ wx' = CallWeather("service-b", BSpan, loc.city)
    /\ UNCHANGED <<proc, req, cfg, svcA, cmd, loc, spans, w, net>>

\* GetLocationByCEP has returned: an error ends the request, a location
\* goes to weather.GetTemperature
ServiceB_AfterLocation ==
    /\ Up("service-b")
    /\ svcB.pc = "waitLocation"
    /\ svcB.copy = "main"
    /\ loc.pc = "returned"
    /\ IF loc.err # NoErr
       THEN /\ spans' = RecordError(spans, BSpan, loc.err)
            /\ w' = [w EXCEPT !["service-b"] =
                        HttpError(@, ServiceB_LocationErrorText(loc.err),
                                  ServiceB_LocationErrorStatus(loc.err))]
            /\ svcB' = [svcB EXCEPT !.pc = "return"]
            /\ UNCHANGED wx
       ELSE /\ svcB' = [svcB EXCEPT !.pc = "waitWeather", !.city = loc.city]
            /\ wx' = CallWeather("service-b", BSpan, loc.city)
            /\ UNCHANGED <<spans, w>>
    /\ UNCHANGED <<proc, req, cfg, svcA, cmd, loc, net>>

\* GetTemperature has returned: an error ends the request, a temperature is
\* converted (with or without a fused multiply-add, as the build has it) and
\* goes on to the assembly of the response
ServiceB_AfterWeather ==
    /\ Up("service-b")
    /\ svcB.pc = "waitWeather"
    /\ svcB.copy = "main"
    /\ wx.pc = "returned"
    /\ IF wx.err # NoErr
       THEN /\ spans' = RecordError(spans, BSpan, wx.err)
            /\ w' = [w EXCEPT !["service-b"] =
                        HttpError(@, "Internal server error",
                                  ServiceB_WeatherErrorStatus(wx.err))]
            /\ svcB' = [svcB EXCEPT !.pc = "return"]
       ELSE /\ svcB' = [svcB EXCEPT !.pc = "assemble", !.tempC = wx.tempC,
                                 !.tempF = TempF(wx.tempC, proc.fma),
                                 !.tempK = TempK(wx.tempC)]
            /\ UNCHANGED <<spans, w>>
    /\ UNCHANGED <<proc, req, cfg, svcA, cmd, loc, wx, net>>

(***************************************************************************)
(* service B: the earlier copy of the handler, where it differs            *)
(***************************************************************************)
GetLocSpan == "get-location"
GetWxSpan == "get-weather"

\* the format check; a well-formed code opens "get-location" in the
\* handler's context, and GetLocationByCEP is called without a context
ServiceB_Earlier_Validate ==
    /\ Up("service-b")
    /\ svcB.pc = "validate"
    /\ svcB.copy = "earlier"
    /\ IF ~ServiceB_MatchCEP(svcB.cep)
       THEN /\ spans' = RecordError(spans, BSpan, Err("format", "formato de CEP invalido"))
            /\ w' = [w EXCEPT !["service-b"] = HttpError(@, "invalid zipcode", 422)]
            /\ svcB' = [svcB EXCEPT !.pc = "return"]
            /\ UNCHANGED loc
       ELSE /\ spans' = StartSpan(spans, GetLocSpan, BSpan)
            /\ svcB' = [svcB EXCEPT !.pc = "waitLocation"]
            /\ loc' = CallLocation("service-b", "", svcB.cep)
            /\ UNCHANGED w
    /\ UNCHANGED <<proc, req, cfg, svcA, cmd, wx, net>>

\* locationSpan.End(); an error ends the request; otherwise "get-weather"
\* is opened in the context that "get-location" was stored in, and
\* GetTemperature is called without a context
ServiceB_Earlier_AfterLocation ==
    /\ Up("service-b")
    /\ svcB.pc = "waitLocation"
    /\ svcB.copy = "earlier"
    /\ loc.pc = "returned"
    /\ IF loc.err # NoErr
       THEN /\ spans' = RecordError(EndSpan(spans, GetLocSpan), BSpan, loc.err)
            /\ w' = [w EXCEPT !["service-b"] =
                        HttpError(@, ServiceB_LocationErrorText(loc.err),
                                  ServiceB_LocationErrorStatus(loc.err))]
            /\ svcB' = [svcB EXCEPT !.pc = "return"]
            /\ UNCHANGED wx
       ELSE /\ spans' = StartSpan(EndSpan(spans, GetLocSpan), GetWxSpan, GetLocSpan)
            /\ svcB' = [svcB EXCEPT !.pc = "waitWeather", !.city = loc.city]
            /\ wx' = CallWeather("service-b", "", loc.city)
            /\ UNCHANGED w
    /\ UNCHANGED <<proc, req, cfg, svcA, cmd, loc, net>>

\* weatherSpan.End(); an error ends the request, a temperature is converted
ServiceB_Earlier_AfterWeather ==
    /\ Up("service-b")
    /\ svcB.pc = "waitWeather"
    /\ svcB.copy = "earlier"
    /\ wx.pc = "returned"
    /\ IF wx.err # NoErr
       THEN /\ spans' = RecordError(EndSpan(spans, GetWxSpan), BSpan, wx.err)
            /\ w' = [w EXCEPT !["service-b"] =
                        HttpError(@, "Internal server error",
                                  ServiceB_WeatherErrorStatus(wx.err))]
            /\ svcB' = [svcB EXCEPT !.pc = "return"]
       ELSE /\ spans' = EndSpan(spans, GetWxSpan)
            /\ svcB' = [svcB EXCEPT !.pc = "assemble", !.tempC = wx.tempC,
                                 !.tempF = TempF(wx.tempC, proc.fma),
                                 !.tempK = TempK(wx.tempC)]
            /\ UNCHANGED w
    /\ UNCHANGED <<proc, req, cfg, svcA, cmd, loc, wx, net>>

\* variant: the assembly can fail and answers 500
ServiceB_Assemble_Failing ==
    /\ Up("service-b")
    /\ svcB.pc = "assemble"
    /\ w' = [w EXCEPT !["service-b"] =
                HttpError(@, "error encoding response", 500)]
    /\ svcB' = [svcB EXCEPT !.pc = "return"]
    /\ UNCHANGED <<proc, req, cfg, svcA, cmd, loc, wx, spans, net>>

\* the response is built from the three temperatures and written with
\* status 200
ServiceB_Assemble ==
    /\ Up("service-b")
    /\ svcB.pc = "assemble"
    /\ w' = [w EXCEPT !["service-b"] =
                Write(WriteHeader(SetContentType(@, "application/json"), 200),
                      ServiceB_Encode(svcB.city, svcB.tempC, svcB.tempF, svcB.tempK))]
    /\ svcB' = [svcB EXCEPT !.pc = "return"]
    /\ UNCHANGED <<proc, req, cfg, svcA, cmd, loc, wx, spans, net>>

\* the deferred span.End()
ServiceB_Return ==
    /\ Up("service-b")
    /\ svcB.pc = "return"
    /\ spans' = EndSpan(spans, BSpan)
    /\ svcB' = [svcB EXCEPT !.pc = "exit"]
    /\ UNCHANGED <<proc, req, cfg, svcA, cmd, loc, wx, w, net>>

(***************************************************************************)
(* single service: handler                                                 *)
(***************************************************************************)
\* r.URL.Query().Get("cep") and the format check
Cmd_Validate ==
    /\ Up("cmd")
    /\ cmd.pc = "validate"
    /\ LET cep == req.payload.cep
       IN  IF ~Cmd_MatchCEP(cep)
           THEN /\ w' = [w EXCEPT !["cmd"] = HttpError(@, "CEP invalido", 422)]
                /\ cmd' = [cmd EXCEPT !.pc = "done", !.cep = cep]
                /\ UNCHANGED loc
           ELSE /\ cmd' = [cmd EXCEPT !.pc = "waitLocation", !.cep = cep]
                /\ loc' = CallLocation("cmd", "", cep)
                /\ UNCHANGED w
    /\ UNCHANGED <<proc, req, cfg, svcA, svcB, wx, spans, net>>

Cmd_AfterLocation ==
    /\ Up("cmd")
    /\ cmd.pc = "waitLocation"
    /\ loc.pc = "returned"
    /\ IF loc.err # NoErr
       THEN /\ w' = [w EXCEPT !["cmd"] =
                        HttpError(@, "CEP nao encontrado", Cmd_LocationErrorStatus(loc.err))]
            /\ cmd' = [cmd EXCEPT !.pc = "done"]
            /\ UNCHANGED wx
       ELSE /\ cmd' = [cmd EXCEPT !.pc = "waitWeather", !.city = loc.city]
            /\ wx' = CallWeather("cmd", "", loc.city)
            /\ UNCHANGED w
    /\ UNCHANGED <<proc, req, cfg, svcA, svcB, loc, spans, net>>

\* no WriteHeader on success: Encode's Write sends 200
Cmd_AfterWeather ==
    /\ Up("cmd")
    /\ cmd.pc = "waitWeather"
    /\ wx.pc = "returned"
    /\ IF wx.err # NoErr
       THEN /\ w' = [w EXCEPT !["cmd"] =
                        HttpError(@, "Falha ao obter temperatura",
                                  Cmd_WeatherErrorStatus(wx.err))]
            /\ cmd' = [cmd EXCEPT !.pc = "done"]
       ELSE /\ w' = [w EXCEPT !["cmd"] =
                         Write(SetContentType(@, "application/json"),
                               Cmd_Encode(wx.tempC, TempF(wx.tempC, proc.fma),
                                          TempK(wx.tempC)))]
            /\ cmd' = [cmd EXCEPT !.pc = "done", !.tempC = wx.tempC]
    /\ UNCHANGED <<proc, req, cfg, svcA, svcB, loc, wx, spans, net>>

(***************************************************************************)
(* service A: handler                                                      *)
(***************************************************************************)
ASpan == "process-zipcode"

\* otelhttp.NewHandler: the server span is started in the context extracted
\* from the client's headers, and the handler is called with it
ServiceA_Serve ==
    /\ Up("service-a")
    /\ svcA.pc = "serve"
    /\ spans' = StartSpanCtx(spans, ASrvSpan, Extract(NoCtx))
    /\ svcA' = [svcA EXCEPT !.pc = "checkMethod"]
    /\ UNCHANGED <<proc, req, cfg, svcB, cmd, loc, wx, w, net>>

\* otelhttp.NewHandler: the handler has returned; a 5xx status marks the
\* server span as failed, and the span is ended
ServiceA_Served ==
    /\ Up("service-a")
    /\ svcA.pc = "exit"
    /\ spans' = EndSpan(IF w["service-a"].status >= 500
                        THEN SetStatus(spans, ASrvSpan, "Error", "")
                        ELSE spans, ASrvSpan)
    /\ svcA' = [svcA EXCEPT !.pc = "done"]
    /\ UNCHANGED <<proc, req, cfg, svcB, cmd, loc, wx, w, net>>

\* variant that lets every method through
ServiceA_CheckMethod_AnyMethod ==
    /\ Up("service-a")
    /\ svcA.pc = "checkMethod"
    /\ svcA' = [svcA EXCEPT !.pc = "decode"]
    /\ UNCHANGED <<proc, req, cfg, svcB, cmd, loc, wx, w, spans, net>>

\* the handler has no span of its own yet: a wrong method returns at once
ServiceA_CheckMethod ==
    /\ Up("service-a")
    /\ svcA.pc = "checkMethod"
    /\ IF req.method # "POST"
       THEN /\ w' = [w EXCEPT !["service-a"] = HttpError(@, "Method not allowed", 405)]
            /\ svcA' = [svcA EXCEPT !.pc = "exit"]
       ELSE /\ svcA' = [svcA EXCEPT !.pc = "decode"]
            /\ UNCHANGED w
    /\ UNCHANGED <<proc, req, cfg, svcB, cmd, loc, wx, spans, net>>

ServiceA_Decode ==
    /\ Up("service-a")
    /\ svcA.pc = "decode"
    /\ IF ~Decodable(req.payload)
       THEN /\ w' = [w EXCEPT !["service-a"] = HttpError(@, "invalid zipcode", 422)]
            /\ svcA' = [svcA EXCEPT !.pc = "exit"]
       ELSE /\ svcA' = [svcA EXCEPT !.pc = "validate", !.cep = req.payload.cep]
            /\ UNCHANGED w
    /\ UNCHANGED <<proc, req, cfg, svcB, cmd, loc, wx, spans, net>>

\* variant that forwards the code whatever its format
ServiceA_Validate_Unchecked ==
    /\ Up("service-a")
    /\ svcA.pc = "validate"
    /\ svcA' = [svcA EXCEPT !.pc = "startSpan"]
    /\ UNCHANGED <<proc, req, cfg, svcB, cmd, loc, wx, w, spans, net>>

ServiceA_Validate ==
    /\ Up("service-a")
    /\ svcA.pc = "validate"
    /\ IF ~ServiceA_MatchCEP(svcA.cep)
       THEN /\ w' = [w EXCEPT !["service-a"] = HttpError(@, "invalid zipcode", 422)]
            /\ svcA' = [svcA EXCEPT !.pc = "exit"]
       ELSE /\ svcA' = [svcA EXCEPT !.pc = "startSpan"]
            /\ UNCHANGED w
    /\ UNCHANGED <<proc, req, cfg, svcB, cmd, loc, wx, spans, net>>

\* tracer.Start(ctx, "process-zipcode"); defer span.End(); json.Marshal(req)
ServiceA_StartSpan ==
    /\ Up("service-a")
    /\ svcA.pc = "startSpan"
    /\ spans' = StartSpan(spans, ASpan, ASrvSpan)
    /\ svcA' = [svcA EXCEPT !.pc = "newRequest", !.out = MarshalRequest(svcA.cep)]
    /\ UNCHANGED <<proc, req, cfg, svcB, cmd, loc, wx, w, net>>

\* http.NewRequestWithContext(ctx, "POST", serviceBURL, jsonBody)
ServiceA_NewRequest ==
    /\ Up("service-a")
    /\ svcA.pc = "newRequest"
    /\ IF cfg.broken = "SERVICE_B_URL"
       THEN /\ spans' = RecordError(spans, ASpan, ErrParseURL("SERVICE_B_URL"))
            /\ w' = [w EXCEPT !["service-a"] = HttpError(@, "Internal server error", 500)]
            /\ svcA' = [svcA EXCEPT !.pc = "return"]
       ELSE /\ svcA' = [svcA EXCEPT !.pc = "do"]
            /\ UNCHANGED <<spans, w>>
    /\ UNCHANGED <<proc, req, cfg, svcB, cmd, loc, wx, net>>

\* variant that reports an unreachable service B as 502
ServiceA_Do_BadGateway ==
    /\ Up("service-a")
    /\ svcA.pc = "do"
    /\ \E delivered \in BOOLEAN :
         IF delivered
         THEN /\ net' = Append(net, NetEvent("service-b", "request"))
              /\ svcB' = [IdleB EXCEPT
                             !.pc = "serve", !.method = "POST", !.payload = svcA.out,
                             !.carrier = Inject([trace |-> spans[ASpan].trace,
                                                 span |-> AClientSpan])]
              /\ svcA' = [svcA EXCEPT !.pc = "awaitB"]
              /\ UNCHANGED w
         ELSE /\ w' = [w EXCEPT !["service-a"] = HttpError(@, "Bad gateway", 502)]
              /\ svcA' = [svcA EXCEPT !.pc = "return"]
              /\ UNCHANGED <<net, svcB>>
    /\ UNCHANGED <<proc, req, cfg, cmd, loc, wx, spans>>

\* client.Do(httpReq): service B receives the POST, or cannot be reached
ServiceA_Do ==
    /\ Up("service-a")
    /\ svcA.pc = "do"
    /\ ~svcA.canceled
    /\ \E delivered \in BOOLEAN :
         IF delivered
         THEN /\ net' = Append(net, NetEvent("service-b", "request"))
              /\ svcB' = [IdleB EXCEPT
                             !.pc = "serve", !.method = "POST", !.payload = svcA.out,
                             !.carrier = Inject([trace |-> spans[ASpan].trace,
                                                 span |-> AClientSpan])]
              /\ svcA' = [svcA EXCEPT !.pc = "awaitB"]
              /\ UNCHANGED w
         ELSE /\ w' = [w EXCEPT !["service-a"] = HttpError(@, "Internal server error", 500)]
              /\ svcA' = [svcA EXCEPT !.pc = "return"]
              /\ UNCHANGED <<net, svcB>>
    /\ UNCHANGED <<proc, req, cfg, cmd, loc, wx, spans>>

\* client.Do(httpReq) returns an error after the POST has reached service
\* B: the connection is reset, or service B's process has gone
ServiceA_TransportError ==
    /\ Up("service-a")
    /\ svcA.pc = "awaitB"
    /\ net' = Append(net, NetEvent("service-b", "failure"))
    /\ w' = [w EXCEPT !["service-a"] = HttpError(@, "Internal server error", 500)]
    /\ svcA' = [svcA EXCEPT !.pc = "return"]
    /\ UNCHANGED <<proc, req, cfg, svcB, cmd, loc, wx, spans>>

\* client.Do(httpReq) returns service B's response: its status is written
ServiceA_RelayStatus ==
    /\ Up("service-a")
    /\ svcA.pc = "awaitB"
    /\ svcB.pc = "done"
    /\ net' = Append(net, NetEvent("service-b", "response"))
    /\ svcA' = [svcA EXCEPT !.pc = "copyBody",
                            !.resp = [status |-> w["service-b"].status,
                                      body |-> w["service-b"].body]]
    /\ w' = [w EXCEPT !["service-a"] =
                WriteHeader(SetContentType(@, "application/json"), w["service-b"].status)]
    /\ UNCHANGED <<proc, req, cfg, svcB, cmd, loc, wx, spans>>

\* io.Copy(w, resp.Body): n chunks are copied; when the copy fails the error
\* is recorded and http.Error is called on the writer that already has a
\* status
ServiceA_CopyBody ==
    /\ Up("service-a")
    /\ svcA.pc = "copyBody"
    /\ svcA.copy = "main"
    /\ \E n \in 0..Len(svcA.resp.body), failed \in BOOLEAN :
         /\ ~failed => n = Len(svcA.resp.body)
         /\ LET copied == [w["service-a"] EXCEPT
                              !.body = @ \o SubSeq(svcA.resp.body, 1, n)]
            IN  IF failed
                THEN /\ spans' = RecordError(spans, ASpan, ErrTransport("service-b body"))
                     /\ w' = [w EXCEPT !["service-a"] =
                                 HttpError(copied, "Internal server error", 500)]
                ELSE /\ w' = [w EXCEPT !["service-a"] = copied]
                     /\ UNCHANGED spans
    /\ svcA' = [svcA EXCEPT !.pc = "return"]
    /\ UNCHANGED <<proc, req, cfg, svcB, cmd, loc, wx, net>>

\* earlier copy: fmt.Fprintf(w, "%s", resp.Body) writes the formatted Go
\* value of the body's reader and none of the bytes service B sent; when
\* the write fails http.Error is called and nothing is recorded on the span
ServiceA_Earlier_CopyBody ==
    /\ Up("service-a")
    /\ svcA.pc = "copyBody"
    /\ svcA.copy = "earlier"
    /\ \E failed \in BOOLEAN :
         w' = [w EXCEPT !["service-a"] =
                  IF failed
                  THEN HttpError(@, "Internal server error", 500)
                  ELSE Write(@, [kind |-> "fmt", text |-> "%s of resp.Body"])]
    /\ svcA' = [svcA EXCEPT !.pc = "return"]
    /\ UNCHANGED <<proc, req, cfg, svcB, cmd, loc, wx, spans, net>>

\* the deferred span.End()
ServiceA_Return ==
    /\ Up("service-a")
    /\ svcA.pc = "return"
    /\ spans' = EndSpan(spans, ASpan)
    /\ svcA' = [svcA EXCEPT !.pc = "exit"]
    /\ UNCHANGED <<proc, req, cfg, svcB, cmd, loc, wx, w, net>>

(***************************************************************************)
(* the request as a whole                                                  *)
(***************************************************************************)
Next ==
    \/ ServiceA_Serve
    \/ ServiceA_Served
    \/ ServiceA_CheckMethod
    \/ ServiceA_Decode
    \/ ServiceA_Validate
    \/ ServiceA_StartSpan
    \/ ServiceA_NewRequest
    \/ ServiceA_Do
    \/ ServiceA_TransportError
    \/ ServiceA_RelayStatus
    \/ ServiceA_CopyBody
    \/ ServiceA_Earlier_CopyBody
    \/ ServiceA_Return
    \/ ServiceB_Serve
    \/ ServiceB_Served
    \/ ServiceB_StartSpan
    \/ ServiceB_CheckMethod
    \/ ServiceB_Decode
    \/ ServiceB_Validate
    \/ ServiceB_AfterLocation
    \/ ServiceB_AfterWeather
    \/ ServiceB_Assemble
    \/ ServiceB_Earlier_Validate
    \/ ServiceB_Earlier_AfterLocation
    \/ ServiceB_Earlier_AfterWeather
    \/ ServiceB_Return
    \/ Loc_StartSpan
    \/ Loc_NewRequest
    \/ Loc_Do
    \/ Loc_TransportError
    \/ Loc_Response
    \/ Loc_Decode
    \/ Loc_Return
    \/ Wx_StartSpan
    \/ Wx_CheckKey
    \/ Wx_NewRequest
    \/ Wx_Do
    \/ Wx_TransportError
    \/ Wx_Response
    \/ Wx_Decode
    \/ Wx_Return
    \/ Cmd_Validate
    \/ Cmd_AfterLocation
    \/ Cmd_AfterWeather

Spec == Init /\ [][Next]_vars

\* the handler the client called, its response, and whether it has returned
EntryPc ==
    CASE req.entry = "service-a" -> svcA.pc
      [] req.entry = "service-b" -> svcB.pc
      [] OTHER -> cmd.pc

Finished == EntryPc = "done"

Outward == w[req.entry]

\* requests as the repository's tests send them: the well-formed code
\* 00000000, an ill-formed code of three digits, and a body that does not
\* decode
InitTests ==
    /\ Init
    /\ req.payload \in {BadJSON,
                        CepBody(<<"0", "0", "0", "0", "0", "0", "0", "0">>),
                        CepBody(<<"0", "0", "0">>)}

\* service B's handler runs on once the temperatures are there: writing to
\* the ResponseWriter and returning wait for nothing
FairSpec ==
    /\ InitTests
    /\ [][Next]_vars
    /\ WF_vars(ServiceB_Assemble)
    /\ WF_vars(ServiceB_Return)
    /\ WF_vars(ServiceB_Served)

(***************************************************************************)
(* two requests in flight in one process                                   *)
(***************************************************************************)
\* the locals of the goroutine that serves the request being stepped
Own ==
    [req |-> req, svcA |-> svcA, svcB |-> svcB, cmd |-> cmd, loc |-> loc, wx |-> wx,
     w |-> w, spans |-> spans, net |-> net]

\* a second request is accepted by the process while the first is in
\* flight: the server starts a goroutine of its own for it, on the same
\* handler
Arrive ==
    /\ proc.peer = NoPeer
    /\ req.entry \in {"service-b", "cmd"}
    /\ svcB.copy = "main"
    /\ LET body == CepBody(<<"7", "7", "7", "7", "7", "7", "7", "7">>)
       IN  proc' = [proc EXCEPT !.peer =
                      [req |-> [entry |-> req.entry, method |-> "POST", payload |-> body,
                                canceled |-> FALSE],
                       svcA |-> IdleA,
                       svcB |-> IF req.entry = "service-b"
                                THEN [IdleB EXCEPT !.pc = "serve", !.method = "POST",
                                                   !.payload = body, !.copy = svcB.copy]
                                ELSE IdleB,
                       cmd |-> [IdleCmd EXCEPT
                                  !.pc = IF req.entry = "cmd" THEN "validate" ELSE "idle"],
                       loc |-> IdleLoc, wx |-> IdleWx,
                       w |-> [h \in Entries |-> NewWriter],
                       spans |-> [n \in SpanNames |-> NoSpan],
                       net |-> << >>]]
    /\ UNCHANGED <<req, cfg, svcA, svcB, cmd, loc, wx, w, spans, net>>

\* the scheduler goes from one goroutine to the other: each has its own
\* locals, the environment and the package variables are the process's
Switch ==
    /\ proc.peer # NoPeer
    /\ req' = proc.peer.req
    /\ svcA' = proc.peer.svcA
    /\ svcB' = proc.peer.svcB
    /\ cmd' = proc.peer.cmd
    /\ loc' = proc.peer.loc
    /\ wx' = proc.peer.wx
    /\ w' = proc.peer.w
    /\ spans' = proc.peer.spans
    /\ net' = proc.peer.net
    /\ proc' = [proc EXCEPT !.peer = Own]
    /\ UNCHANGED cfg

\* two requests of one process under every interleaving of their steps
InitConc ==
    /\ InitTests
    /\ cfg = [apiKey |-> "s3cr3t", broken |-> "none"]
    /\ proc.fma

ConcSpec == InitConc /\ [][Next \/ Arrive \/ Switch]_vars

(***************************************************************************)
(* the environment of the running process                                  *)
(***************************************************************************)
\* os.Setenv / os.Unsetenv while the process serves, as the tests of the
\* repository do: WEATHER_API_KEY is set or removed, SERVICE_B_URL is set
\* to a URL that parses or to one that does not
Setenv ==
    /\ \/ \E k \in ApiKeys \ {cfg.apiKey} : cfg' = [cfg EXCEPT !.apiKey = k]
       \/ /\ cfg.broken \in {"none", "SERVICE_B_URL"}
          /\ cfg' = [cfg EXCEPT !.broken = IF @ = "none" THEN "SERVICE_B_URL" ELSE "none"]
    /\ UNCHANGED <<proc, req, svcA, svcB, cmd, loc, wx, w, spans, net>>

\* one request of the repository's tests in a process whose environment
\* may change after main has started
EnvSpec == InitTests /\ [][Next \/ Setenv]_vars

(***************************************************************************)
(* termination of the process                                              *)
(***************************************************************************)
\* http.ListenAndServe returns an error, with the request not yet handled,
\* a handler running or the response written: the main of service A and of
\* service B prints it and calls os.Exit(1), which ends the process and its
\* handlers without running the deferred tp.Shutdown
Main_ServerError ==
    /\ req.entry \in {"service-a", "service-b"}
    /\ proc.pc = "serving"
    /\ proc' = [proc EXCEPT !.pc = "exited"]
    /\ UNCHANGED <<req, cfg, svcA, svcB, cmd, loc, wx, w, spans, net>>

\* the single service's main has no tracer provider and returns when
\* http.ListenAndServe does: the process ends
Cmd_Main_ServerError ==
    /\ req.entry = "cmd"
    /\ proc.pc = "serving"
    /\ proc' = [proc EXCEPT !.pc = "exited"]
    /\ UNCHANGED <<req, cfg, svcA, svcB, cmd, loc, wx, w, spans, net>>

\* one request of the repository's tests in a process whose server may fail
MainSpec == InitTests /\ [][Next \/ Main_ServerError \/ Cmd_Main_ServerError]_vars

(***************************************************************************)
(* cancellation of the request's context                                   *)
(***************************************************************************)
\* the client goes away while its request is being served
Cancel ==
    /\ ~req.canceled
    /\ EntryPc # "done"
    /\ req' = [req EXCEPT !.canceled = TRUE]
    /\ net' = Append(net, NetEvent("client", "cancel"))
    /\ UNCHANGED <<proc, cfg, svcA, svcB, cmd, loc, wx, w, spans>>

\* client.Do(req) of GetLocationByCEP, or Decode of the body, returns the
\* context's error: a request on the wire is aborted, one not yet sent is
\* not sent
Loc_Canceled ==
    /\ Up(loc.caller)
    /\ loc.pc \in {"do", "inflight", "decode"}
    /\ CtxDone(loc)
    /\ net' = IF loc.pc = "inflight"
              THEN Append(net, NetEvent("viacep", "canceled")) ELSE net
    /\ spans' = Recorded(loc.caller, FailSpan(spans, LocSpan, Err("transport", "context canceled")))
    /\ loc' = [loc EXCEPT !.pc = "return", !.err = Err("transport", "context canceled")]
    /\ UNCHANGED <<proc, req, cfg, svcA, svcB, cmd, wx, w>>

\* client.Do(req) of GetTemperature, or Decode of the body, returns the
\* context's error; io.ReadAll of the body of a response that is not 200
\* fails too, its error is only logged and the lookup fails as refused
Wx_Canceled ==
    /\ Up(wx.caller)
    /\ wx.pc \in {"do", "inflight", "readBody"}
    /\ CtxDone(wx)
    /\ net' = IF wx.pc = "inflight"
              THEN Append(net, NetEvent("weatherapi", "canceled")) ELSE net
    /\ LET err == IF wx.pc = "readBody" /\ wx.resp.status # 200
                  THEN ErrWeatherLookup
                  ELSE Err("transport", "context canceled")
       IN  /\ spans' = Recorded(wx.caller, FailSpan(spans, WxSpan, err))
           /\ wx' = [wx EXCEPT !.pc = "return", !.err = err]
    /\ UNCHANGED <<proc, req, cfg, svcA, svcB, cmd, loc, w>>

\* client.Do(httpReq) of service A returns the context's error: the handler
\* answers 500 and records nothing on its span
ServiceA_Canceled ==
    /\ Up("service-a")
    /\ svcA.pc \in {"do", "awaitB"}
    /\ svcA.canceled
    /\ net' = IF svcA.pc = "awaitB"
              THEN Append(net, NetEvent("service-b", "canceled")) ELSE net
    /\ w' = [w EXCEPT !["service-a"] = HttpError(@, "Internal server error", 500)]
    /\ svcA' = [svcA EXCEPT !.pc = "return"]
    /\ UNCHANGED <<proc, req, cfg, svcB, cmd, loc, wx, spans>>

\* the client of service A has gone; service A's server reads the closed
\* connection and cancels r.Context(), and with it the contexts derived
\* from it
ServiceA_Disconnected ==
    /\ Up("service-a")
    /\ req.entry = "service-a"
    /\ svcA.pc \notin {"idle", "done"}
    /\ ~svcA.canceled
    /\ req.canceled
    /\ svcA' = [svcA EXCEPT !.canceled = TRUE]
    /\ net' = Append(net, NetEvent("service-a", "disconnect"))
    /\ UNCHANGED <<proc, req, cfg, svcB, cmd, loc, wx, w, spans>>

\* the client of service B has gone, or service A has aborted its POST or
\* lost the connection; service B's server reads the closed connection and cancels the context
\* of the request it is serving
ServiceB_Disconnected ==
    /\ Up("service-b")
    /\ svcB.pc \notin {"idle", "done"}
    /\ ~svcB.canceled
    /\ \/ req.entry = "service-b" /\ req.canceled
       \/ /\ req.entry = "service-a"
          /\ \E i \in DOMAIN net :
                net[i] \in {NetEvent("service-b", "canceled"),
                            NetEvent("service-b", "failure")}
    /\ svcB' = [svcB EXCEPT !.canceled = TRUE]
    /\ net' = Append(net, NetEvent("service-b", "disconnect"))
    /\ UNCHANGED <<proc, req, cfg, svcA, cmd, loc, wx, w, spans>>

\* one request of the repository's tests on a build that fuses the
\* multiply-add (the conversions play no part in a cancellation)
InitCancel == InitTests /\ proc.fma

\* that request, which the client may abandon
CancelSpec ==
    /\ InitCancel
    /\ [][Next \/ Cancel \/ Loc_Canceled \/ Wx_Canceled \/ ServiceA_Canceled
             \/ ServiceA_Disconnected \/ ServiceB_Disconnected]_vars

(***************************************************************************)
(* Properties                                                              *)
(***************************************************************************)
Events(to, ev) == {i \in DOMAIN net : net[i] = NetEvent(to, ev)}

Requests(to) == Cardinality(Events(to, "request"))

\* the rule of the data model: exactly 8 decimal digits
IsEightDigits(s) == Len(s) = 8 /\ \A i \in 1..Len(s) : s[i] \in Digit

ServiceB_Returned == svcB.pc \in {"return", "exit", "done"}

\* C1: each upstream receives at most one request per client request, also
\* after a failure; the temperature request is sent only after
\* GetLocationByCEP has returned a non-empty city without error, so never
\* while the location lookup is pending and never after it failed.
C1_OneCallEachInOrder ==
    /\ Requests("viacep") <= 1
    /\ Requests("weatherapi") <= 1
    /\ (wx.pc # "idle" \/ Requests("weatherapi") > 0) =>
          /\ loc.pc = "returned"
          /\ loc.err = NoErr
          /\ loc.city # ""
          /\ wx.city = loc.city
    /\ \A i \in Events("weatherapi", "request") :
          \E j, k \in 1..(i - 1) :
             /\ j < k
             /\ net[j] = NetEvent("viacep", "request")
             /\ net[k] = NetEvent("viacep", "response")

C1_Witness ==
    /\ Finished
    /\ Requests("viacep") = 1
    /\ Requests("weatherapi") = 1
    /\ wx.err = ErrTransport("weatherapi")

\* C2: a code that is not exactly 8 decimal digits causes no call to either
\* upstream, whatever the entry point, and the handler that checks it
\* (service B on a POST with a decodable body, the single service on any
\* request) answers 422.
C2_InvalidCodeRejected ==
    /\ ~IsEightDigits(req.payload.cep) =>
          /\ Requests("viacep") = 0
          /\ Requests("weatherapi") = 0
          /\ loc.pc = "idle"
          /\ wx.pc = "idle"
    /\ (/\ ServiceB_Returned
        /\ svcB.method = "POST"
        /\ Decodable(svcB.payload)
        /\ ~IsEightDigits(svcB.payload.cep)) => w["service-b"].status = 422
    /\ (cmd.pc = "done" /\ ~IsEightDigits(req.payload.cep)) => w["cmd"].status = 422

C2_Witness ==
    /\ req.entry = "service-b"
    /\ req.method = "POST"
    /\ req.payload = CepBody(<<"0", "0", "0">>)
    /\ svcB.pc = "done"
    /\ Outward.status = 422
    /\ net = << >>

\* C3: the three format checks are one predicate: each is true exactly of
\* the strings of 8 decimal digits, and each handler goes on past its check
\* (service A to its span, service B and the single service to the location
\* lookup) exactly for those strings.
C3_SameFormatCheck ==
    LET c == req.payload.cep
    IN  /\ ServiceA_MatchCEP(c) <=> IsEightDigits(c)
        /\ ServiceB_MatchCEP(c) <=> IsEightDigits(c)
        /\ Cmd_MatchCEP(c) <=> IsEightDigits(c)
        /\ (svcA.pc \notin {"idle", "checkMethod", "decode", "validate"}
              /\ req.method = "POST" /\ Decodable(req.payload)) =>
              (IsEightDigits(svcA.cep) <=>
                 (svcA.pc = "startSpan" \/ spans[ASpan].state # "unstarted"))
        /\ (svcB.pc \notin {"idle", "startSpan", "checkMethod", "decode", "validate"}
              /\ svcB.method = "POST" /\ Decodable(svcB.payload)) =>
              (IsEightDigits(svcB.cep) <=> loc.pc # "idle")
        /\ cmd.pc \notin {"idle", "validate"} =>
              (IsEightDigits(cmd.cep) <=> loc.pc # "idle")

C3_Witness ==
    /\ req.entry = "service-a"
    /\ spans[ASpan].state = "open"
    /\ svcB.pc = "waitLocation"
    /\ svcB.cep = req.payload.cep
    /\ loc.pc = "startSpan"

\* the location upstream has answered with an object whose city is absent
\* or empty
LocAnsweredEmpty ==
    /\ loc.resp.status # 0
    /\ loc.resp.body.kind = "object"
    /\ DecodeLocation(loc.resp.body) = ""

\* C4: when the location upstream answers with a payload whose city is
\* absent or empty, GetLocationByCEP returns "zipcode not found", the
\* temperature lookup is never started, and the status of the request is
\* 404 (service A relays it unless its own call to service B failed).
C4_EmptyCityIsNotFound ==
    LocAnsweredEmpty =>
       /\ loc.err = ErrZipcodeNotFound
       /\ loc.city = ""
       /\ wx.pc = "idle"
       /\ Requests("weatherapi") = 0
       /\ ServiceB_Returned => w["service-b"].status = 404
       /\ (Finished /\ Events("service-b", "failure") = {}) => Outward.status = 404

C4_Witness ==
    /\ Finished
    /\ req.entry = "service-a"
    /\ LocAnsweredEmpty
    /\ ~loc.resp.body.has
    /\ Outward.status = 404

\* C5: when GetLocationByCEP fails with anything but not-found (request
\* construction, transport, decode), the request ends with 500 and never
\* with 404, in service B and in the single-service handler.
C5_LocationFailureIs500 ==
    (loc.pc = "returned" /\ loc.err.kind \in {"request", "transport", "decode"}) =>
       /\ ServiceB_Returned => w["service-b"].status = 500
       /\ cmd.pc = "done" => w["cmd"].status = 500

\* C5, the part service B satisfies: 404 exactly for not-found, 500 for
\* every other location error.
C5_ServiceBPart ==
    (loc.pc = "returned" /\ loc.err # NoErr /\ ServiceB_Returned) =>
       w["service-b"].status = IF loc.err.kind = "notfound" THEN 404 ELSE 500

\* the location upstream is unreachable and the single-service handler
\* answers 404
C5_CmdAnswers404 ==
    /\ cmd.pc = "done"
    /\ loc.err = ErrTransport("viacep")
    /\ w["cmd"].status = 404
    /\ w["cmd"].body = <<TextChunk("CEP nao encontrado\n")>>

\* C6: every error of GetTemperature (missing credential, request
\* construction, transport, upstream rejection, decode) ends the request
\* with status 500, in each handler and at the client.
C6_TemperatureFailureIs500 ==
    (wx.pc = "returned" /\ wx.err # NoErr) =>
       /\ ServiceB_Returned => w["service-b"].status = 500
       /\ cmd.pc = "done" => w["cmd"].status = 500
       /\ Finished => Outward.status = 500

C6_Witness ==
    /\ Finished
    /\ req.entry = "service-a"
    /\ wx.err = ErrWeatherLookup
    /\ wx.resp.status = 401
    /\ Outward.status = 500

\* C7: with WEATHER_API_KEY unset or empty, GetTemperature returns
\* "WEATHER_API_KEY not set", no request is built for or sent to the
\* temperature upstream, and the request ends with status 500.
C7_MissingCredential ==
    cfg.apiKey = "" =>
       /\ Requests("weatherapi") = 0
       /\ wx.pc \notin {"newRequest", "do", "inflight"}
       /\ wx.pc \in {"return", "returned"} => wx.err = ErrKeyNotSet
       /\ (wx.pc = "returned" /\ Finished) => Outward.status = 500

C7_Witness ==
    /\ cfg.apiKey = ""
    /\ Finished
    /\ req.entry = "service-b"
    /\ wx.pc = "returned"
    /\ wx.err = ErrKeyNotSet
    /\ Outward.status = 500

BothSucceeded ==
    /\ loc.pc = "returned" /\ loc.err = NoErr
    /\ wx.pc = "returned" /\ wx.err = NoErr

\* the three temperature fields of a body: temp_C is the float64 reading of
\* the number the upstream gave, temp_F and temp_K are the program's two
\* conversions of that same temp_C
CarriesTemps(b) ==
    /\ b.kind = "json"
    /\ wx.resp.body.has => b.temp_C = FloatFromDecimal(wx.resp.body.temp_c, 10)
    /\ \E fused \in BOOLEAN : b.temp_F = TempF(b.temp_C, fused)
    /\ b.temp_K = TempK(b.temp_C)

CarriesCity(b) ==
    /\ "city" \in DOMAIN b
    /\ b.city = loc.resp.body.city

\* C8 as claimed: whenever both lookups succeed the status is 200 and the
\* body carries the upstream's city and temp_C with the derived temp_F and
\* temp_K, for every handler that assembles a response; no 200 without two
\* successful lookups.
C8_SuccessBodyHasCity ==
    /\ \A h \in {"service-b", "cmd"} :
          (BothSucceeded /\ (IF h = "cmd" THEN cmd.pc = "done" ELSE ServiceB_Returned)) =>
             /\ w[h].status = 200
             /\ Len(w[h].body) = 1
             /\ CarriesTemps(w[h].body[1])
             /\ CarriesCity(w[h].body[1])
    /\ \A h \in Entries : w[h].status = 200 => BothSucceeded

\* C8, the part that holds: with both lookups successful the status is 200
\* in service B and in the single service; every body service B writes
\* carries the city of the location upstream with temp_C, temp_F and temp_K,
\* every body the single service writes carries the three temperatures; at
\* most one body is written, and no handler produces 200 unless both
\* lookups succeeded.
C8_SuccessStatusAndTemps ==
    /\ (BothSucceeded /\ ServiceB_Returned) =>
          /\ w["service-b"].status = 200
          /\ Len(w["service-b"].body) <= 1
          /\ \A i \in DOMAIN w["service-b"].body :
                CarriesTemps(w["service-b"].body[i]) /\ CarriesCity(w["service-b"].body[i])
    /\ (BothSucceeded /\ cmd.pc = "done") =>
          /\ w["cmd"].status = 200
          /\ Len(w["cmd"].body) <= 1
          /\ \A i \in DOMAIN w["cmd"].body : CarriesTemps(w["cmd"].body[i])
    /\ \A h \in Entries : w[h].status = 200 => BothSucceeded

\* the single service has answered 200 to a request both of whose lookups
\* succeeded, and the body it wrote has the three temperatures and no city
C8_CmdBodyLacksCity ==
    /\ req.entry = "cmd"
    /\ cmd.pc = "done"
    /\ BothSucceeded
    /\ loc.city = "TestCity"
    /\ wx.resp.body.temp_c = 250
    /\ w["cmd"].status = 200
    /\ w["cmd"].body = <<Cmd_Encode(FloatFromDecimal(25, 1), FloatFromDecimal(77, 1),
                                    FloatFromDecimal(298, 1))>>
    /\ "city" \notin DOMAIN w["cmd"].body[1]

\* C9 as claimed: every success body carries tempF = tempC*1.8 + 32 and
\* tempK = tempC + 273 exactly: with the upstream's temp_c = t/10, temp_C is
\* the number t/10, temp_F the number (18*t + 3200)/100 and temp_K the
\* number (t + 2730)/10, each as JSON writes that number.
C9_ExactConversions ==
    \A h \in Entries : \A i \in DOMAIN w[h].body :
       LET b == w[h].body[i]
           t == IF wx.resp.body.has THEN wx.resp.body.temp_c ELSE 0
       IN  b.kind = "json" =>
              /\ b.temp_C = FloatFromDecimal(t, 10)
              /\ b.temp_F = FloatFromDecimal(18 * t + 3200, 100)
              /\ b.temp_K = FloatFromDecimal(t + 2730, 10)

\* the upstream reports 28.5 and service B, multiplying and then adding,
\* answers with a temp_F that is neither 83.3 nor any number of hundredths
C9_InexactFahrenheit ==
    /\ svcB.pc = "done"
    /\ wx.resp.body.temp_c = 285
    /\ w["service-b"].status = 200
    /\ w["service-b"].body[1].temp_C = FloatFromDecimal(285, 10)
    /\ w["service-b"].body[1].temp_F =
          FloatAdd(FloatMul(FloatFromDecimal(285, 10), Float1_8), Float32)
    /\ w["service-b"].body[1].temp_F # FloatFromDecimal(8330, 100)
    /\ w["service-b"].body[1].temp_K = FloatFromDecimal(3015, 10)

\* C10: once service B has answered a request that passed service A's
\* validation, the client receives service B's status and body unchanged.
C10_RelayVerbatim ==
    (svcA.pc \in {"return", "exit", "done"} /\ svcA.resp.status # 0) =>
       /\ svcA.resp.status = w["service-b"].status
       /\ svcA.resp.body = w["service-b"].body
       /\ w["service-a"].status = svcA.resp.status
       /\ w["service-a"].body = svcA.resp.body

\* C10, the part that holds: the status is always service B's, and so is
\* the body whenever the handler of main.go runs and io.Copy returns no
\* error.
C10_StatusRelayed ==
    (svcA.pc \in {"return", "exit", "done"} /\ svcA.resp.status # 0) =>
       /\ w["service-a"].status = w["service-b"].status
       /\ (svcA.copy = "main" /\ spans[ASpan].errors = << >>) =>
             w["service-a"].body = w["service-b"].body

\* service B answered 200 with one JSON object, the copy broke before any
\* of it was written, and the client holds 200 with the error text as body
C10_BrokenCopy ==
    /\ svcA.pc = "done"
    /\ w["service-b"].status = 200
    /\ w["service-a"].status = 200
    /\ Len(w["service-b"].body) = 1
    /\ w["service-a"].body = <<TextChunk("Internal server error\n")>>

\* the parent of a span; the client span of service A's POST is a child of
\* service A's span
ParentOf(n) ==
    IF n \in SpanNames THEN spans[n].parent
    ELSE IF n = AClientSpan THEN ASpan
    ELSE ""

RECURSIVE DescendsFrom(_, _, _)
DescendsFrom(n, a, fuel) ==
    /\ fuel > 0
    /\ n # ""
    /\ (ParentOf(n) = a \/ DescendsFrom(ParentOf(n), a, fuel - 1))

\* C11 as claimed: for every request service A forwards, service B's span
\* process-weather-request is in the trace of service A's span
\* process-zipcode and descends from it.
C11_OneTraceAcrossServices ==
    (req.entry = "service-a" /\ spans[BSpan].state # "unstarted") =>
       /\ spans[BSpan].trace = spans[ASpan].trace
       /\ DescendsFrom(BSpan, ASpan, Cardinality(SpanNames) + 1)

\* a forwarded request whose two halves are two traces: service B's server
\* span is a root span
C11_SeparateTraces ==
    /\ req.entry = "service-a"
    /\ svcB.pc = "done"
    /\ svcB.carrier = NoCtx
    /\ spans[ASpan].trace = NewTraceID(ASrvSpan)
    /\ spans[BSrvSpan].parent = ""
    /\ spans[BSpan].parent = BSrvSpan
    /\ spans[BSpan].trace = NewTraceID(BSrvSpan)

\* C12: a POST to service A whose body does not decode, or whose code fails
\* the format check, is answered 422 by service A itself, and service B
\* receives no request and never starts handling one.
C12_GatewayRejectsLocally ==
    (req.entry = "service-a" /\ req.method = "POST"
       /\ (~Decodable(req.payload) \/ ~IsEightDigits(req.payload.cep))) =>
       /\ Requests("service-b") = 0
       /\ svcB = IdleB
       /\ svcA.pc \notin {"startSpan", "newRequest", "do", "awaitB", "copyBody", "return"}
       /\ svcA.pc \in {"exit", "done"} =>
             /\ w["service-a"].status = 422
             /\ w["service-a"].body = <<TextChunk("invalid zipcode\n")>>

C12_Witness ==
    /\ req.entry = "service-a"
    /\ req.method = "POST"
    /\ req.payload = BadJSON
    /\ svcA.pc = "done"
    /\ w["service-a"].status = 422
    /\ net = << >>

\* C13: when service A's handler has returned, the status the client holds
\* is 405 for a wrong method, 422 for an undecodable body or an ill-formed
\* code, 500 when the outbound request could not be built or service B could
\* not be reached, and in every other case the status of service B's
\* response.
C13_GatewayStatuses ==
    (req.entry = "service-a" /\ svcA.pc \in {"exit", "done"}) =>
       LET st == w["service-a"].status
       IN  IF req.method # "POST" THEN st = 405
           ELSE IF ~Decodable(req.payload) \/ ~IsEightDigits(req.payload.cep)
                THEN st = 422
           ELSE IF Events("service-b", "response") = {}
                THEN st = 500 /\ svcA.resp = NoWireResp
           ELSE st = svcA.resp.status /\ st = w["service-b"].status

\* service B cannot be reached and the client holds 500
C13_Witness ==
    /\ req.entry = "service-a"
    /\ req.method = "POST"
    /\ cfg.broken = "none"
    /\ svcA.pc = "done"
    /\ Requests("service-b") = 0
    /\ w["service-a"].status = 500
    /\ w["service-a"].body = <<TextChunk("Internal server error\n")>>

\* C14 as claimed: a request to service A with another method than POST is
\* answered 405 while no span at all has been started, the body has not
\* been decoded and service B has not been contacted.
C14_NoSpanBefore405 ==
    (req.entry = "service-a" /\ req.method # "POST" /\ w["service-a"].status # 0) =>
       /\ w["service-a"].status = 405
       /\ \A n \in SpanNames : spans[n].starts = 0
       /\ svcA.cep = << >> /\ svcA.out = NoPayload
       /\ net = << >> /\ svcB = IdleB

\* C14 as amended: for a request to service A with another method than
\* POST the handler's first step answers 405; the handler never starts its
\* span process-zipcode, never decodes the body and never contacts service
\* B.  The only span of the request is the server span the otelhttp wrapper
\* opened before the handler ran, and the wrapper ends it.
C14_MethodRejectedFirst ==
    (req.entry = "service-a" /\ req.method # "POST") =>
       /\ svcA.pc \in {"serve", "checkMethod", "exit", "done"}
       /\ svcA.pc \in {"exit", "done"} =>
             /\ w["service-a"].status = 405
             /\ w["service-a"].body = <<TextChunk("Method not allowed\n")>>
       /\ \A n \in SpanNames \ {ASrvSpan} : spans[n].starts = 0
       /\ svcA.pc # "serve" => spans[ASrvSpan].starts = 1
       /\ svcA.pc = "done" => spans[ASrvSpan].state = "ended"
       /\ svcA.cep = << >> /\ svcA.out = NoPayload
       /\ net = << >> /\ svcB = IdleB

C14_Witness ==
    /\ req.entry = "service-a"
    /\ req.method = "GET"
    /\ req.payload = CepBody(<<"0", "0", "0", "0", "0", "0", "0", "0">>)
    /\ svcA.pc = "done"
    /\ w["service-a"].status = 405
    /\ spans[ASrvSpan].state = "ended"
    /\ spans[ASpan].state = "unstarted"

\* C15: the span of GetLocationByCEP and the span of GetTemperature are
\* started once per call and ended exactly once when the call has returned,
\* whatever the exit path, never before and never twice; when the request
\* has finished, in service B too when service A gave its call up, every
\* span started for it has ended, once. In a process without a
\* TracerProvider no span is recorded at all.
C15_SpansClosedOnce ==
    /\ \A n \in SpanNames :
          /\ spans[n].starts <= 1
          /\ spans[n].ends <= spans[n].starts
          /\ spans[n].state = (IF spans[n].starts = 0 THEN "unstarted"
                               ELSE IF spans[n].ends = 0 THEN "open" ELSE "ended")
    /\ (Tracing(loc.caller) /\ loc.pc \in {"newRequest", "do", "inflight", "decode", "return"}) =>
          spans[LocSpan].starts = 1 /\ spans[LocSpan].ends = 0
    /\ (Tracing(loc.caller) /\ loc.pc = "returned") =>
          spans[LocSpan].starts = 1 /\ spans[LocSpan].ends = 1
    /\ (Tracing(wx.caller)
          /\ wx.pc \in {"checkKey", "newRequest", "do", "inflight", "readBody", "return"}) =>
          spans[WxSpan].starts = 1 /\ spans[WxSpan].ends = 0
    /\ (Tracing(wx.caller) /\ wx.pc = "returned") =>
          spans[WxSpan].starts = 1 /\ spans[WxSpan].ends = 1
    /\ ~Tracing(req.entry) => \A n \in SpanNames : spans[n].starts = 0
    /\ (Finished /\ svcB.pc \in {"idle", "done"}) =>
          \A n \in SpanNames : spans[n].state # "open"

\* a request that failed on an undecodable temperature payload, with both
\* resolver spans ended once
C15_Witness ==
    /\ Finished
    /\ req.entry = "service-a"
    /\ loc.err = NoErr
    /\ wx.err = ErrDecode
    /\ spans[LocSpan].ends = 1
    /\ spans[WxSpan].ends = 1
    /\ \A n \in SpanNames \ {GetLocSpan, GetWxSpan} : spans[n].state = "ended"

\* an ended span carries an error status and a recorded error
MarkedFailed(n) == spans[n].status = "Error" /\ spans[n].errors # << >>

\* C16 as claimed: when a resolver has returned an error its span has ended
\* with error status and the error recorded, and so have service B's span
\* and service A's span when the handler answered 4xx/5xx after starting
\* its span.
C16_FailedSpansMarked ==
    /\ (loc.pc = "returned" /\ loc.err # NoErr) => MarkedFailed(LocSpan)
    /\ (wx.pc = "returned" /\ wx.err # NoErr) => MarkedFailed(WxSpan)
    /\ (spans[BSpan].state = "ended" /\ w["service-b"].status >= 400) =>
          MarkedFailed(BSpan)
    /\ (spans[ASpan].state = "ended" /\ w["service-a"].status >= 400) =>
          MarkedFailed(ASpan)

\* C16, the part that holds: in a process with a TracerProvider the two
\* resolvers record the error and set the error status on every failing
\* exit path, and set Ok only on success.
C16_ResolverSpansMarked ==
    /\ (Tracing(loc.caller) /\ loc.pc = "returned") =>
          IF loc.err # NoErr
          THEN spans[LocSpan].status = "Error" /\ spans[LocSpan].errors = <<loc.err.msg>>
          ELSE spans[LocSpan].status = "Ok" /\ spans[LocSpan].errors = << >>
    /\ (Tracing(wx.caller) /\ wx.pc = "returned") =>
          IF wx.err # NoErr
          THEN spans[WxSpan].status = "Error" /\ spans[WxSpan].errors = <<wx.err.msg>>
          ELSE spans[WxSpan].status = "Ok" /\ spans[WxSpan].errors = << >>

\* the location upstream is unreachable: service B's span has ended with the
\* error recorded and no error status, service A's span has ended with
\* neither, and the client holds 500
C16_UnmarkedHandlerSpans ==
    /\ req.entry = "service-a"
    /\ svcA.pc = "done"
    /\ loc.err = ErrTransport("viacep")
    /\ w["service-a"].status = 500
    /\ spans[LocSpan].status = "Error"
    /\ spans[BSpan].state = "ended"
    /\ spans[BSpan].errors = <<loc.err.msg>>
    /\ spans[BSpan].status = "Unset"
    /\ spans[ASpan].state = "ended"
    /\ spans[ASpan].errors = << >>
    /\ spans[ASpan].status = "Unset"

\* C17 as claimed: no attribute of any span contains the value of
\* WEATHER_API_KEY; the only attribute built from it is the URL, whose key
\* part is what fmt.Sprintf put in place of the first %s.
C17_NoCredentialInAttributes ==
    \A n \in SpanNames :
       cfg.apiKey # "" => spans[n].attrs.url.key # cfg.apiKey

\* the span of GetTemperature carries http.url with the key in its query
C17_CredentialInURL ==
    /\ cfg.apiKey = "s3cr3t"
    /\ wx.city = "Sao Paulo"
    /\ "http.url" \in spans[WxSpan].attrs.keys
    /\ spans[WxSpan].attrs.url =
          [tmpl |-> "ApiURL", key |-> "s3cr3t", cep |-> << >>, q |-> "Sao+Paulo"]
    /\ spans[WxSpan].state = "ended"

\* C18 as claimed: with WEATHER_API_KEY absent GetTemperature returns the
\* configuration error with no request sent and without a span of its own;
\* the error is recorded on the caller's span only.
C18_NoSpanWithoutCredential ==
    (cfg.apiKey = "" /\ wx.pc # "idle") =>
       /\ Requests("weatherapi") = 0
       /\ wx.pc \in {"return", "returned"} => wx.err = ErrKeyNotSet
       /\ spans[WxSpan].starts = 0
       /\ spans[WxSpan].errors = << >>
       /\ (wx.caller = "service-b" /\ ServiceB_Returned) =>
             spans[BSpan].errors = <<ErrKeyNotSet.msg>>

\* C18 as amended: with WEATHER_API_KEY absent GetTemperature returns the
\* configuration error before it builds a URL or sends a request; its span
\* weatherapi-call is already open by then, carries no attribute, records
\* the error with error status and is ended; service B's span records the
\* same error as well. The single service, which installs no
\* TracerProvider, returns the error with nothing recorded.
C18_ConfigErrorBeforeNetwork ==
    (cfg.apiKey = "" /\ wx.pc # "idle") =>
       /\ Requests("weatherapi") = 0
       /\ wx.pc \in {"startSpan", "checkKey", "return", "returned"}
       /\ wx.pc \in {"return", "returned"} => wx.err = ErrKeyNotSet
       /\ (Tracing(wx.caller) /\ wx.pc \in {"return", "returned"}) =>
             /\ spans[WxSpan].starts = 1
             /\ spans[WxSpan].attrs = NoAttrs
             /\ spans[WxSpan].status = "Error"
             /\ spans[WxSpan].desc = ErrKeyNotSet.msg
             /\ spans[WxSpan].errors = <<ErrKeyNotSet.msg>>
       /\ (Tracing(wx.caller) /\ wx.pc = "returned") => spans[WxSpan].state = "ended"
       /\ ~Tracing(wx.caller) => spans[WxSpan] = NoSpan
       /\ (wx.caller = "service-b" /\ ServiceB_Returned) =>
             /\ spans[BSpan].errors = <<ErrKeyNotSet.msg>>
             /\ w["service-b"].status = 500

C18_Witness ==
    /\ req.entry = "service-b"
    /\ cfg.apiKey = ""
    /\ svcB.pc = "done"
    /\ net = <<NetEvent("viacep", "request"), NetEvent("viacep", "response")>>
    /\ spans[WxSpan].parent = BSpan
    /\ spans[WxSpan].state = "ended"
    /\ spans[WxSpan].status = "Error"
    /\ spans[WxSpan].errors = <<"WEATHER_API_KEY not set">>
    /\ spans[BSpan].errors = <<"WEATHER_API_KEY not set">>

\* the state of service B's request in the specification's state machine
Phase ==
    CASE svcB.pc \in {"idle", "serve"} -> "None"
      [] svcB.pc \in {"startSpan", "checkMethod", "decode", "validate"} -> "Validating"
      [] svcB.pc = "waitLocation" -> "ResolvingLocation"
      [] svcB.pc = "waitWeather" -> "ResolvingTemperature"
      [] svcB.pc = "assemble" -> "Assembling"
      [] OTHER -> IF w["service-b"].status = 200 THEN "Done" ELSE "Error"

PhaseSteps ==
    {<<"None", "Validating">>,
     <<"Validating", "ResolvingLocation">>,
     <<"ResolvingLocation", "ResolvingTemperature">>,
     <<"ResolvingTemperature", "Assembling">>,
     <<"Assembling", "Done">>,
     <<"Validating", "Error">>,
     <<"ResolvingLocation", "Error">>,
     <<"ResolvingTemperature", "Error">>}

\* C19, the steps: every step of a request keeps service B's state or moves
\* it along one arrow of the state machine; Error is entered from the first
\* three states only; in Error and in Done the resolvers and the response
\* do not change any more.
C19_StepsForward ==
    [][/\ Phase' # Phase => <<Phase, Phase'>> \in PhaseSteps
       /\ Phase \in {"Done", "Error"} =>
             /\ Phase' = Phase
             /\ loc' = loc /\ wx' = wx
             /\ w'["service-b"] = w["service-b"]
             /\ Requests("viacep")' = Requests("viacep")
             /\ Requests("weatherapi")' = Requests("weatherapi")]_vars

\* C19: service B's request moves only forward through Validating,
\* ResolvingLocation, ResolvingTemperature, Assembling, Done; Error is
\* entered only from the first three and is absorbing, as is Done; and a
\* request that reaches Assembling always ends in Done with status 200.
C19_StateMachine ==
    /\ C19_StepsForward
    /\ [](Phase = "Done" => w["service-b"].status = 200)
    /\ [](Phase = "Error" => w["service-b"].status \in {404, 405, 422, 500})
    /\ (Phase = "Assembling") ~> (svcB.pc = "done" /\ w["service-b"].status = 200)

C19_Witness ==
    /\ svcB.pc = "done"
    /\ Phase = "Done"
    /\ loc.pc = "returned" /\ wx.pc = "returned"
    /\ Requests("viacep") = 1 /\ Requests("weatherapi") = 1
    /\ w["service-b"].status = 200

\* the span that measures the location lookup of service B's request, and
\* the one that measures its temperature lookup
LocationSpanOfB == IF svcB.copy = "earlier" THEN GetLocSpan ELSE LocSpan
TemperatureSpanOfB == IF svcB.copy = "earlier" THEN GetWxSpan ELSE WxSpan

\* a started span of service B's request is a child of the handler's span
\* and carries its trace id
ChildOfBSpan(n) ==
    spans[n].state # "unstarted" =>
       /\ spans[n].parent = BSpan
       /\ spans[n].trace = spans[BSpan].trace
       /\ spans[n].trace # ""

\* the handler's span is started once, when the handler is entered
OneBSpan ==
    spans[BSpan].starts = IF svcB.pc \in {"idle", "serve", "startSpan"} THEN 0 ELSE 1

\* C20 as claimed: service B opens exactly one parent span per request, and
\* the location span and the temperature span are both children of that
\* span, in its trace; the temperature span is not a child of the location
\* span and neither is a root.
C20_ResolverSpansAreSiblings ==
    /\ OneBSpan
    /\ (loc.caller = "service-b" => ChildOfBSpan(LocationSpanOfB))
    /\ (wx.caller = "service-b" => ChildOfBSpan(TemperatureSpanOfB))

\* C20, the part that holds: one parent span per request in both copies of
\* the handler; in the handler of service-b/main.go both resolver spans are
\* children of it; in the earlier copy the location span is a child of it
\* and the temperature span is in its trace.
C20_MainCopySiblings ==
    /\ OneBSpan
    /\ (loc.caller = "service-b" => ChildOfBSpan(LocationSpanOfB))
    /\ (wx.caller = "service-b" /\ svcB.copy = "main") => ChildOfBSpan(WxSpan)
    /\ (wx.caller = "service-b" /\ svcB.copy = "earlier") =>
          /\ spans[GetWxSpan].state # "unstarted"
          /\ spans[GetWxSpan].trace = spans[BSpan].trace

\* the earlier copy has answered 200 and its temperature span is a child of
\* the location span
C20_TemperatureUnderLocation ==
    /\ svcB.pc = "done"
    /\ svcB.copy = "earlier"
    /\ w["service-b"].status = 200
    /\ spans[GetLocSpan].parent = BSpan
    /\ spans[GetWxSpan].parent = GetLocSpan
    /\ spans[GetWxSpan].state = "ended"

\* a call to t is on the wire just before the i-th network event
InFlightAt(t, i) ==
    Cardinality({j \in 1..(i - 1) : net[j] = NetEvent(t, "request")})
      > Cardinality({j \in 1..(i - 1) :
                       net[j].to = t /\ net[j].ev \in {"response", "failure", "canceled"}})

Upstreams == {"viacep", "weatherapi"}

\* the handler that calls the resolvers, and the events that cancel the
\* context of the request it serves: the server noticing that its client
\* has gone (the single service keeps no context: its client going away)
LookupHandler == IF req.entry = "cmd" THEN "cmd" ELSE "service-b"

LookupCancels ==
    IF req.entry = "cmd" THEN Events("client", "cancel")
    ELSE Events("service-b", "disconnect")

HandlerReturned(h) ==
    CASE h = "service-a" -> svcA.pc \in {"exit", "done"}
      [] h = "service-b" -> svcB.pc \in {"exit", "done"}
      [] OTHER -> cmd.pc = "done"

\* service A's context is cancelled while its POST is on the wire: the
\* POST is aborted and never answered, and the handler ends with 500
GatewayAbortsOnCancel ==
    req.entry = "service-a" =>
       \A i \in Events("service-a", "disconnect") :
          InFlightAt("service-b", i) =>
             /\ \A j \in DOMAIN net :
                  j > i /\ net[j].to = "service-b" =>
                     net[j].ev \notin {"request", "response"}
             /\ HandlerReturned("service-a") => w["service-a"].status >= 500

\* the context of the request that runs the lookups is cancelled while a
\* lookup is on the wire: no lookup is answered or started afterwards, the
\* span of an aborted lookup has the status Error, and the handler ends
\* with an error status
LookupsAbortOnCancel ==
    \A i \in LookupCancels :
       (\E t \in Upstreams : InFlightAt(t, i)) =>
          /\ \A j \in DOMAIN net :
               j > i /\ net[j].to \in Upstreams =>
                  net[j].ev \notin {"request", "response"}
          /\ Events("viacep", "canceled") # {} => spans[LocSpan].status = "Error"
          /\ Events("weatherapi", "canceled") # {} => spans[WxSpan].status = "Error"
          /\ HandlerReturned(LookupHandler) => w[LookupHandler].status >= 500

AbortsOnCancel == GatewayAbortsOnCancel /\ LookupsAbortOnCancel

\* no remote call is started once the context it would run under is done
NoCallAfterCancel ==
    /\ \A i \in Events("service-a", "disconnect") :
          \A j \in DOMAIN net : j > i => net[j] # NetEvent("service-b", "request")
    /\ \A i \in Events("service-b", "disconnect") :
          \A j \in DOMAIN net :
             j > i /\ net[j].to \in Upstreams => net[j].ev # "request"

\* a remote call the cancellation aborted leaves its resolver's span with
\* the status Error, and the handler that made the call ends with 500
AbortedEndsInError ==
    /\ Events("service-b", "canceled") # {} /\ HandlerReturned("service-a") =>
          w["service-a"].status = 500
    /\ Events("viacep", "canceled") # {} => spans[LocSpan].status = "Error"
    /\ Events("weatherapi", "canceled") # {} => spans[WxSpan].status = "Error"
    /\ (Events("viacep", "canceled") \cup Events("weatherapi", "canceled") # {}
          /\ HandlerReturned("service-b")) =>
          w["service-b"].status >= 500

\* C21 as claimed: when the context of a request is cancelled while a
\* remote call made under it is in flight (service A's POST, a lookup of
\* service B or of the single service), the call is aborted, its span is
\* closed with an error status, no later remote call is started and the
\* request ends in error, whichever handler serves the request.
C21_CancelAbortsCalls == AbortsOnCancel

\* C21, the part that holds: service A and the handler of service-b/main.go
\* hand their context to every call; once that context is done they start
\* no remote call, and a call the cancellation aborted has its span closed
\* with the status Error and ends the request with an error status. A
\* response that arrived together with the cancellation may still be taken.
C21_CancelWithContext ==
    (req.entry # "cmd" /\ svcB.copy = "main") =>
       NoCallAfterCancel /\ AbortedEndsInError

\* the single-service handler went on after the client had gone: the
\* location lookup was answered and the temperature lookup was made
C21_CmdRunsOn ==
    /\ req.entry = "cmd"
    /\ Finished
    /\ \E i \in Events("client", "cancel") :
          /\ InFlightAt("viacep", i)
          /\ \E j \in Events("viacep", "response") : j > i
          /\ \E j \in Events("weatherapi", "request") : j > i
    /\ w["cmd"].status = 200

\* the requests in flight: the one being stepped and, when there is one,
\* the other
InFlight == {Own} \cup (IF proc.peer = NoPeer THEN {} ELSE {proc.peer})

\* the handler of request r has written its whole response
Answered(r) ==
    CASE r.req.entry = "service-b" -> r.svcB.pc \in {"return", "exit", "done"}
      [] r.req.entry = "cmd" -> r.cmd.pc = "done"
      [] OTHER -> FALSE

\* what the two upstreams did for request r: the response each sent, or
\* that none came
LocationAnswer(r) ==
    IF cfg.broken = "BaseURL" THEN [city |-> "", err |-> ErrParseURL("BaseURL")]
    ELSE IF \E i \in DOMAIN r.net : r.net[i] = NetEvent("viacep", "response")
         THEN Loc_Outcome(r.loc.resp)
         ELSE [city |-> "", err |-> ErrTransport("viacep")]

TemperatureAnswer(r) ==
    IF cfg.apiKey = "" THEN [tempC |-> FloatZero, err |-> ErrKeyNotSet]
    ELSE IF cfg.broken = "ApiURL" THEN [tempC |-> FloatZero, err |-> ErrParseURL("ApiURL")]
    ELSE IF \E i \in DOMAIN r.net : r.net[i] = NetEvent("weatherapi", "response")
         THEN Wx_Outcome(r.wx.resp)
         ELSE [tempC |-> FloatZero, err |-> ErrTransport("weatherapi")]

\* the response request r gets when it is served alone with its input, its
\* upstream answers and the configuration of the process
AloneB(r) ==
    IF r.req.method # "POST" THEN HttpError(NewWriter, "Method not allowed", 405)
    ELSE IF ~Decodable(r.req.payload) \/ ~IsEightDigits(r.req.payload.cep)
         THEN HttpError(NewWriter, "invalid zipcode", 422)
    ELSE IF LocationAnswer(r).err = ErrZipcodeNotFound
         THEN HttpError(NewWriter, "can not find zipcode", 404)
    ELSE IF LocationAnswer(r).err # NoErr \/ TemperatureAnswer(r).err # NoErr
         THEN HttpError(NewWriter, "Internal server error", 500)
    ELSE LET c == TemperatureAnswer(r).tempC
         IN  Write(WriteHeader(SetContentType(NewWriter, "application/json"), 200),
                   ServiceB_Encode(LocationAnswer(r).city, c, TempF(c, proc.fma), TempK(c)))

AloneCmd(r) ==
    IF ~IsEightDigits(r.req.payload.cep) THEN HttpError(NewWriter, "CEP invalido", 422)
    ELSE IF LocationAnswer(r).err # NoErr
         THEN HttpError(NewWriter, "CEP nao encontrado", 404)
    ELSE IF TemperatureAnswer(r).err # NoErr
         THEN HttpError(NewWriter, "Falha ao obter temperatura", 500)
    ELSE LET c == TemperatureAnswer(r).tempC
         IN  Write(SetContentType(NewWriter, "application/json"),
                   Cmd_Encode(c, TempF(c, proc.fma), TempK(c)))

\* C22: whatever the interleaving of the steps of two requests in flight
\* in one process, each request that has been answered has the status and
\* the body it gets when served alone with the same input, the same
\* upstream answers and the same configuration.
C22_OutcomeAsAlone ==
    \A r \in InFlight :
       Answered(r) =>
          LET alone == IF r.req.entry = "cmd" THEN AloneCmd(r) ELSE AloneB(r)
              got == r.w[r.req.entry]
          IN  got.status = alone.status /\ got.body = alone.body

\* two requests of service B answered after their steps were interleaved:
\* the first was answered while the second was waiting for the location
\* upstream, and the two got different cities
C22_Witness ==
    /\ proc.peer # NoPeer
    /\ req.entry = "service-b" /\ proc.peer.req.entry = "service-b"
    /\ svcB.pc = "done" /\ proc.peer.svcB.pc = "done"
    /\ w["service-b"].status = 200 /\ proc.peer.w["service-b"].status = 200
    /\ w["service-b"].body[1].city = "TestCity"
    /\ proc.peer.w["service-b"].body[1].city = "Sao Paulo"
    /\ wx.resp.body.temp_c # proc.peer.wx.resp.body.temp_c

\* GetTemperature has handled a response of the temperature upstream
WxAnswered == wx.pc \in {"return", "returned"} /\ Events("weatherapi", "response") # {}

\* the response is decoded: a malformed body is a decode error, a
\* well-formed one gives the Celsius value and the span status Ok (the
\* span of a process with a TracerProvider; without one there is none)
WxDecoded ==
    IF wx.resp.body.kind = "garbage"
    THEN wx.err = ErrDecode /\ (Tracing(wx.caller) => spans[WxSpan].status = "Error")
    ELSE /\ wx.err = NoErr
         /\ wx.tempC = DecodeWeather(wx.resp.body)
         /\ Tracing(wx.caller) => spans[WxSpan].status = "Ok"

\* the response is the upstream's refusal: the upstream error, span Error
WxRefused ==
    /\ wx.err = ErrWeatherLookup
    /\ wx.tempC = FloatZero
    /\ Tracing(wx.caller) => spans[WxSpan].status = "Error"

\* C23 as claimed: the Temperature Resolver goes by the status class: a
\* status outside 200..299 gives the upstream error with the span marked
\* Error, every status in 200..299 has its body decoded.
C23_ByStatusClass ==
    WxAnswered =>
       IF wx.resp.status \in 200..299 THEN WxDecoded ELSE WxRefused

\* C23, the part that holds: the same with 200 as the only status whose
\* body is decoded.
C23_OnlyStatus200 ==
    WxAnswered =>
       IF wx.resp.status = 200 THEN WxDecoded ELSE WxRefused

\* the upstream answered 201 with a well-formed body, and GetTemperature
\* returned the upstream error
C23_CreatedIsRefused ==
    /\ wx.pc = "returned"
    /\ wx.resp.status = 201
    /\ wx.resp.body.kind = "object" /\ wx.resp.body.has
    /\ wx.err = ErrWeatherLookup
    /\ spans[WxSpan].status = "Error"
    /\ Finished /\ Outward.status = 500

\* GetTemperature is past its credential check; service A is past the
\* construction of its request to service B
KeyChecked == wx.pc \notin {"idle", "startSpan", "checkKey"}
URLChecked ==
    \/ svcA.pc \in {"do", "awaitB", "copyBody", "return"}
    \/ svcA.pc \in {"exit", "done"} /\ spans[ASpan].state # "unstarted"

\* C24 as claimed: the configuration is what the environment held when main
\* started: a request finds the credential missing exactly when it was
\* missing at startup and sends the credential of startup, and service A
\* fails on its downstream URL exactly when the URL of startup does not
\* parse, whatever became of the environment since.
C24_ReadOnceAtStartup ==
    /\ KeyChecked =>
          /\ (wx.err = ErrKeyNotSet) <=> (proc.boot.apiKey = "")
          /\ wx.err # ErrKeyNotSet => spans[WxSpan].attrs.url.key = proc.boot.apiKey
    /\ URLChecked =>
          (spans[ASpan].errors = <<ErrParseURL("SERVICE_B_URL").msg>>)
             <=> (proc.boot.broken = "SERVICE_B_URL")

\* the process started with the credential, the credential was removed
\* from the environment afterwards, and the request failed on its absence
C24_KeyRemovedAfterStartup ==
    /\ proc.boot.apiKey = "s3cr3t"
    /\ cfg.apiKey = ""
    /\ wx.pc = "returned"
    /\ wx.err = ErrKeyNotSet
    /\ Requests("weatherapi") = 0
    /\ Finished /\ Outward.status = 500

\* the mains that initialise a tracer provider
Traced == req.entry \in {"service-a", "service-b"}

\* C25 as claimed: a process that initialised its tracer provider and has
\* terminated, the HTTP server returning an error included, has shut the
\* provider down.
C25_ShutdownOnEveryExit ==
    Traced /\ proc.pc = "exited" => proc.tp = "shutdown"

\* service B answered a request, its spans are ended and waiting for the
\* exporter, the server failed and the process is gone with the provider
\* still running
C25_ExitedWithoutShutdown ==
    /\ req.entry = "service-b"
    /\ proc.pc = "exited"
    /\ proc.tp = "running"
    /\ spans[BSpan].state = "ended"

\* the one body service B has for each status it answers a failure with
ServiceB_ErrorBody(status) ==
    CASE status = 405 -> "Method not allowed\n"
      [] status = 422 -> "invalid zipcode\n"
      [] status = 404 -> "can not find zipcode\n"
      [] OTHER -> "Internal server error\n"

\* C26: the body of an error response of service B is a function of its
\* status alone: whatever error the lookups returned, a failure answered
\* with a given status carries the one fixed text of that status, and the
\* text of the internal error is never in it.
C26_ErrorBodyByStatusOnly ==
    ServiceB_Returned /\ w["service-b"].status >= 400 =>
        /\ w["service-b"].body = <<TextChunk(ServiceB_ErrorBody(w["service-b"].status))>>
        /\ \A e \in {loc.err, wx.err} :
             e.kind # "nil" => w["service-b"].body # <<TextChunk(e.msg \o "\n")>>

\* a lookup failed on a cause that has a text of its own (the upstream
\* could not be reached, its body did not decode, the credential is missing,
\* the upstream refused) and service B answered 500 with the fixed text
C26_Witness ==
    /\ svcB.pc = "done"
    /\ w["service-b"].status = 500
    /\ \/ loc.err.kind \in {"transport", "decode", "request"}
       \/ wx.err.kind \in {"config", "upstream", "transport", "decode"}
    /\ w["service-b"].body = <<TextChunk("Internal server error\n")>>

\* C27: a resolver that has returned left its span (in a process with a
\* TracerProvider) with status Ok exactly when it returned no error and
\* with status Error otherwise; with an error
\* GetLocationByCEP returned the empty Location and GetTemperature the
\* value 0, and without one they returned the city and the temperature of
\* the upstream's body.
C27_StatusOkIffNoError ==
    /\ loc.pc = "returned" =>
          /\ Tracing(loc.caller) =>
                /\ spans[LocSpan].status = "Ok" <=> loc.err = NoErr
                /\ spans[LocSpan].status \in {"Ok", "Error"}
          /\ IF loc.err = NoErr
             THEN loc.city = loc.resp.body.city /\ loc.city # ""
             ELSE loc.city = ""
    /\ wx.pc = "returned" =>
          /\ Tracing(wx.caller) =>
                /\ spans[WxSpan].status = "Ok" <=> wx.err = NoErr
                /\ spans[WxSpan].status \in {"Ok", "Error"}
          /\ IF wx.err = NoErr
             THEN wx.tempC = DecodeWeather(wx.resp.body)
             ELSE wx.tempC = FloatZero

\* the location was resolved and its span is Ok, and the temperature
\* upstream refused with a body that holds a temperature: the span is in
\* error and the value returned is 0
C27_Witness ==
    /\ loc.pc = "returned" /\ loc.err = NoErr
    /\ spans[LocSpan].status = "Ok" /\ spans[LocSpan].state = "ended"
    /\ wx.pc = "returned" /\ wx.err = ErrWeatherLookup
    /\ wx.resp.body.has /\ wx.resp.body.temp_c = 250
    /\ wx.tempC = FloatZero
    /\ spans[WxSpan].status = "Error" /\ spans[WxSpan].state = "ended"

\* service B's handler has taken the code out of the body it received
ServiceB_Validated ==
    svcB.pc \notin {"idle", "serve", "startSpan", "checkMethod", "decode", "validate"}

\* C28: a request service A sends to service B is a POST whose body holds
\* the code of the client's request, which passed service A's format
\* check; service B reads that same code, and never answers such a
\* request 422.
C28_ForwardedCodeIsValidated ==
    req.entry = "service-a" =>
        /\ svcB.pc # "idle" =>
              /\ svcB.method = "POST"
              /\ svcB.payload = CepBody(req.payload.cep)
              /\ svcA.cep = req.payload.cep
              /\ ServiceA_MatchCEP(svcA.cep)
        /\ ServiceB_Validated => svcB.cep = svcA.cep /\ ServiceB_MatchCEP(svcB.cep)
        /\ w["service-b"].status # 422

\* service A forwarded a code and service B served it to the end with
\* the code it was sent
C28_Witness ==
    /\ req.entry = "service-a"
    /\ Requests("service-b") = 1
    /\ svcB.pc = "done"
    /\ svcB.cep = req.payload.cep
    /\ w["service-b"].status = 200
    /\ svcA.pc = "done"

ErrorTexts ==
    {"Method not allowed\n", "invalid zipcode\n", "can not find zipcode\n",
     "Internal server error\n"}

\* the writer never had WriteHeader called on it twice, and a text of
\* http.Error in its body is all of the body
OneStatus(h) ==
    /\ w[h].writeHeaders <= 1
    /\ \A i \in 1..Len(w[h].body) :
         (\E t \in ErrorTexts : w[h].body[i] = TextChunk(t)) =>
            Len(w[h].body) = 1 /\ w[h].status >= 400

\* C29 as claimed: on every path of service A's and service B's handler one
\* status is written and none after it, and no error text is written to a
\* response whose status has been sent.
C29_OneStatusPerInvocation ==
    /\ OneStatus("service-a")
    /\ OneStatus("service-b")
    /\ svcA.pc = "done" => w["service-a"].status # 0
    /\ svcB.pc = "done" => w["service-b"].status # 0

\* C29, the part that holds: service B writes one status on every path,
\* and so does service A on every path but the relay of service B's body,
\* and there too when io.Copy returns no error.
C29_OneStatusButBrokenCopy ==
    /\ OneStatus("service-b")
    /\ svcB.pc = "done" => w["service-b"].status # 0
    /\ svcA.pc = "done" => w["service-a"].status # 0
    /\ (svcA.resp.status = 0 \/ svcA.pc = "copyBody") => OneStatus("service-a")
    /\ (/\ svcA.copy = "main"
        /\ \A i \in 1..Len(spans[ASpan].errors) :
              spans[ASpan].errors[i] # ErrTransport("service-b body").msg) =>
          OneStatus("service-a")

\* service B answered 404, service A relayed the status, the copy of
\* the body broke after the text was written, and http.Error called
\* WriteHeader a second time and added its text to the body
C29_SecondWriteAfterRelay ==
    /\ svcA.pc = "done"
    /\ w["service-a"].status = 404
    /\ w["service-a"].writeHeaders = 2
    /\ w["service-a"].body =
          <<TextChunk("can not find zipcode\n"), TextChunk("Internal server error\n")>>

\* the location upstream has answered and GetLocationByCEP has made its
\* outcome of the response
LocAnswered == loc.resp.status # 0 /\ loc.pc \in {"return", "returned"}

\* C30: what GetLocationByCEP returns for a response is decided by the body
\* alone, under every status: a body that is not JSON gives the decode
\* error, a JSON object whose city is absent or empty gives "zipcode not
\* found", and any other gives the city without error; service B answers
\* the second 404 and the first 500.
C30_BodyDecidesLocation ==
    LocAnswered =>
       LET b == loc.resp.body
       IN  /\ b.kind = "garbage" <=> loc.err = ErrDecode
           /\ (b.kind = "object" /\ (~b.has \/ b.city = "")) <=> loc.err = ErrZipcodeNotFound
           /\ (b.kind = "object" /\ b.has /\ b.city # "") <=> loc.err = NoErr
           /\ loc.err = NoErr => loc.city = b.city
           /\ ServiceB_Returned =>
                 /\ loc.err = ErrDecode => w["service-b"].status = 500
                 /\ loc.err = ErrZipcodeNotFound => w["service-b"].status = 404

\* the upstream answered 400 with a body that holds a city and the lookup
\* succeeded with it
C30_Witness ==
    /\ loc.pc = "returned"
    /\ loc.resp.status = 400
    /\ loc.resp.body.has /\ loc.resp.body.city # ""
    /\ loc.err = NoErr
    /\ loc.city = loc.resp.body.city
    /\ spans[LocSpan].attrs.status_code = 400

Opened(n) == spans[n].state # "unstarted"
Closed(n) == spans[n].state = "ended"

\* the spans opened below service B's span: those of the two resolvers and
\* the two the earlier handler opens itself
InnerSpans == {LocSpan, WxSpan, GetLocSpan, GetWxSpan}

\* C31: in a request service B handles, no span is opened twice, a span of
\* a lookup is open only while service B's span is open (opened after it,
\* closed before it), the temperature lookup's span is opened only after
\* the location lookup's span is closed, and service B's span is closed
\* once when the handler has returned, whatever the status, and never
\* twice.
C31_SpansNestedInTime ==
    svcB.pc # "idle" =>
        /\ \A n \in InnerSpans \cup {BSpan} : spans[n].starts <= 1 /\ spans[n].ends <= 1
        /\ \A n \in InnerSpans :
             /\ Opened(n) => Opened(BSpan)
             /\ Closed(BSpan) => spans[n].state # "open"
        /\ Opened(WxSpan) => Closed(LocSpan)
        /\ Opened(GetWxSpan) => Closed(GetLocSpan)
        /\ svcB.pc \in {"exit", "done"} =>
              /\ spans[BSpan].ends = 1
              /\ w["service-b"].status \in {200, 404, 405, 422, 500}

\* the temperature lookup is under way: its span is open, the location
\* lookup's span is closed, service B's span is still open
C31_Witness ==
    /\ svcB.pc = "waitWeather"
    /\ spans[BSpan].state = "open"
    /\ spans[LocSpan].state = "ended"
    /\ spans[WxSpan].state = "open"
    /\ wx.pc = "inflight"

\* neither lookup was called and neither upstream was sent a request
NoUpstreamCall ==
    /\ loc.pc = "idle" /\ wx.pc = "idle"
    /\ Requests("viacep") = 0 /\ Requests("weatherapi") = 0
    /\ \A n \in InnerSpans : ~Opened(n)

\* C32: service B answers a request whose method is not POST with 405
\* without decoding its body, and a POST whose body does not decode with
\* 422 without checking a code; in both cases neither lookup is called.
\* Every status service B's handler returns with is one of 200, 404, 405,
\* 422, 500, and it returns with one.
C32_RejectedBeforeValidation ==
    svcB.pc # "idle" =>
        /\ svcB.method # "POST" =>
              /\ NoUpstreamCall
              /\ svcB.cep = << >>
              /\ svcB.pc \in {"serve", "startSpan", "checkMethod", "return", "exit", "done"}
              /\ ServiceB_Returned => w["service-b"].status = 405
        /\ (svcB.method = "POST" /\ ~Decodable(svcB.payload)) =>
              /\ NoUpstreamCall
              /\ svcB.cep = << >>
              /\ svcB.pc \notin {"validate", "waitLocation", "waitWeather", "assemble"}
              /\ ServiceB_Returned => w["service-b"].status = 422
        /\ IF ServiceB_Returned
           THEN w["service-b"].status \in {200, 404, 405, 422, 500}
           ELSE w["service-b"].status = 0

\* a POST to service B whose body is not JSON has been answered 422 and
\* nothing went out on the network
C32_Witness ==
    /\ req.entry = "service-b"
    /\ svcB.method = "POST"
    /\ svcB.payload = BadJSON
    /\ svcB.pc = "done"
    /\ w["service-b"].status = 422
    /\ w["service-b"].body = <<TextChunk("invalid zipcode\n")>>
    /\ net = << >>

\* the temperature upstream answered 200 with a JSON object that has no
\* current.temp_c, and GetTemperature has made its outcome of it
WxLacksTemp ==
    /\ wx.pc \in {"return", "returned"}
    /\ wx.resp.status = 200
    /\ wx.resp.body.kind = "object"
    /\ ~wx.resp.body.has

\* C33: a 200 of the temperature upstream whose JSON object has no
\* current.temp_c is no error: GetTemperature returns 0 with its span Ok
\* (where the process has a TracerProvider), and the handler answers 200
\* with temp_C 0, temp_F 32 and temp_K 273 (service A relays it unless its
\* own call to service B failed).
C33_MissingTempIsZero ==
    WxLacksTemp =>
        /\ wx.err = NoErr
        /\ wx.tempC = FloatZero
        /\ Tracing(wx.caller) =>
              /\ spans[WxSpan].status = "Ok"
              /\ spans[WxSpan].attrs.temperature = FloatZero
        /\ ServiceB_Returned =>
              /\ w["service-b"].status = 200
              /\ w["service-b"].body =
                    <<ServiceB_Encode(loc.city, FloatZero, Float32, Float273)>>
        /\ cmd.pc = "done" =>
              /\ w["cmd"].status = 200
              /\ w["cmd"].body = <<Cmd_Encode(FloatZero, Float32, Float273)>>
        /\ (Finished /\ Events("service-b", "failure") = {}) => Outward.status = 200

\* service B served a request whose temperature response had no
\* current.temp_c, and the client holds 200 with 0, 32 and 273
C33_Witness ==
    /\ req.entry = "service-b"
    /\ Finished
    /\ WxLacksTemp
    /\ Outward.status = 200
    /\ Outward.body = <<ServiceB_Encode(loc.city, FloatZero, Float32, Float273)>>

====
